---- MODULE Spec2Model ----
(***************************************************************************)
(* Section membership (Chain), capacity tracking (Capacity) and chunk      *)
(* placement (ImmutableDataManager) of a storage network node, as state    *)
(* machines.  Each of the three machines has its own specification; a      *)
(* specification leaves the variables of the other machines untouched.     *)
(***************************************************************************)
EXTENDS Integers, Sequences, FiniteSets, Bags, TLC

VARIABLES
    chain,          \* the Chain struct (chain.rs:42-64), SharedState and accumulator included
    proposed,       \* EldersInfo proposals returned by poll_accumulated, up for voting
    last,           \* what the last operation on the chain observed and returned
    deferred,       \* history: the churn events deferred and not yet returned, oldest first
    churned,        \* history: how many churn events the section has voted for
    adult_levels,   \* Capacity: the level stored for the adult (capacity/mod.rs:29)
    top_lock,       \* Capacity: who holds the RwLock around the map of levels
    task,           \* Capacity: where each task is in its set_adult_level call
    initial_level,  \* history: the level stored for the adult at the start
    idm,            \* ImmutableDataManager, its routing node and the requests in flight
    core,           \* routing Core: the section it knows and the events of its last call
    node            \* sn Node: its membership state and the commands of its last call

chainVars == <<chain, proposed, last, deferred, churned>>

capVars == <<adult_levels, top_lock, task, initial_level>>

nodeVars == <<core, node>>

vars == <<chainVars, capVars, idm, nodeVars>>

(***************************************************************************)
(* Bounds of the model.                                                    *)
(***************************************************************************)
MaxChurn == 2          \* churn events the section votes for in a run
MaxTasks == 3          \* tasks that call set_adult_level concurrently
MaxLevel == 3          \* storage levels are 0 .. MaxLevel
MaxNodes == 4          \* nodes that can be in the close group of the chunk
MaxNodeChurn == 2      \* nodes added to or lost from the routing table in a run
MaxIncomplete == 2     \* events held incomplete in the accumulator at a time
MaxRelocations == 2    \* relocation details held in the relocation queue at a time
MaxVersion == 2        \* highest version of the neighbour infos voted for

(***************************************************************************)
(* Names, prefixes (xor_space) and EldersInfo (section).                   *)
(***************************************************************************)
NameBits == 2
Names == 0 .. 3
Ages == {4, 5}
MIN_AGE == 4

our_id == 0
elder_size == 2
safe_section_size == 2

Bit(n, i) == (n \div (2 ^ (NameBits - 1 - i))) % 2

Matches(p, n) == \A i \in 1 .. Len(p) : p[i] = Bit(n, i - 1)

IsPrefixOf(p, q) == Len(p) <= Len(q) /\ \A i \in 1 .. Len(p) : p[i] = q[i]

IsCompatible(p, q) == IsPrefixOf(p, q) \/ IsPrefixOf(q, p)

IsExtensionOf(p, q) == Len(p) > Len(q) /\ IsPrefixOf(q, p)

Pushed(p, b) == Append(p, b)

RECURSIVE CommonPrefix(_, _, _)
CommonPrefix(a, b, i) ==
    IF i < NameBits /\ Bit(a, i) = Bit(b, i) THEN CommonPrefix(a, b, i + 1) ELSE i

NewEldersInfo(members, prefix, prev) ==
    [prefix |-> prefix, members |-> members, version |-> prev.version + 1]

IsSuccessorOf(info, other) ==
    info.version = other.version + 1 /\ IsCompatible(info.prefix, other.prefix)

QuorumOf(info, voters) ==
    Cardinality(voters \cap info.members) * 3 > Cardinality(info.members) * 2

TotalConsensusOf(info, voters) == info.members \subseteq voters

\* The key a DKG among `participants` produces.
DkgKey(participants) == [participants |-> participants]

FirstName(S) == CHOOSE n \in S : \A m \in S : n <= m

\* Option values: the empty sequence is None, a one-element sequence is Some.
None == <<>>
Some(x) == <<x>>

NoMember == [age |-> 0, state |-> "None"]

IsMember(c, n) == c.our_members[n].state # "None"

Joined(c) == {n \in Names : c.our_members[n].state = "Joined"}

Mature(c) == {n \in Names : IsMember(c, n) /\ c.our_members[n].age > MIN_AGE}

is_peer_our_elder(c, n) == n \in c.our_info.members

our_prefix(c) == c.our_info.prefix

Voters(proofs) == {p.voter : p \in proofs}


(***************************************************************************)
(* Elder candidates (SharedState / SectionMembers).                        *)
(***************************************************************************)
\* a comes before b: older first, then the lower name.
Better(c, a, b) ==
    \/ c.our_members[a].age > c.our_members[b].age
    \/ c.our_members[a].age = c.our_members[b].age /\ a < b

FirstBy(c, S, n) == {a \in S : Cardinality({b \in S : Better(c, b, a)}) < n}

elder_candidates(c, n) == FirstBy(c, Joined(c), n)

elder_candidates_matching_prefix(c, prefix, n) ==
    FirstBy(c, {m \in Joined(c) : Matches(prefix, m)}, n)

elder_candidates_from_relocating(c, n) ==
    FirstBy(c, {m \in c.our_info.members : c.our_members[m].state = "Relocating"}, n)

Saturating(n) == IF n < 0 THEN 0 ELSE n

our_expected_elders(c) ==
    LET elders == elder_candidates(c, elder_size)
        missing == Saturating(elder_size - Cardinality(elders))
    IN  elders \cup elder_candidates_from_relocating(c, missing)

\* Variant: churn is let through while a churn is in progress.
can_poll_churn_despite_churn(c) == c.handled_genesis_event

\* Variant: churn is let through before the genesis event is handled.
can_poll_churn_before_genesis(c) == ~c.churn_in_progress

can_poll_churn(c) == c.handled_genesis_event /\ ~c.churn_in_progress

\* Variant: the members that joined count for a split, mature or not.
should_split_of_joined(c) ==
    LET bits == Len(our_prefix(c))
        ours == {m \in Joined(c) : CommonPrefix(our_id, m, 0) > bits}
        siblings == Joined(c) \ ours
    IN  /\ Cardinality(ours) >= safe_section_size
        /\ Cardinality(siblings) >= safe_section_size

\* Variant: a child needs more than safe_section_size mature members.
should_split_above_safe_size(c) ==
    LET bits == Len(our_prefix(c))
        ours == {m \in Mature(c) : CommonPrefix(our_id, m, 0) > bits}
        siblings == Mature(c) \ ours
    IN  /\ Cardinality(ours) > safe_section_size
        /\ Cardinality(siblings) > safe_section_size

should_split(c) ==
    LET bits == Len(our_prefix(c))
        ours == {m \in Mature(c) : CommonPrefix(our_id, m, 0) > bits}
        siblings == Mature(c) \ ours
    IN  /\ Cardinality(ours) >= safe_section_size
        /\ Cardinality(siblings) >= safe_section_size

split_self(c) ==
    LET next_bit == Bit(our_id, Len(our_prefix(c)))
        our_pfx == Pushed(our_prefix(c), next_bit)
        other_pfx == Pushed(our_prefix(c), 1 - next_bit)
    IN  << NewEldersInfo(elder_candidates_matching_prefix(c, our_pfx, elder_size),
                         our_pfx, c.our_info),
           NewEldersInfo(elder_candidates_matching_prefix(c, other_pfx, elder_size),
                         other_pfx, c.our_info) >>

(***************************************************************************)
(* The steps of poll_accumulated.  A step takes the chain and returns the  *)
(* chain after it together with what it yields (None or Some).             *)
(***************************************************************************)
\* Variant: the backlog is drained from the end the events are pushed to.
poll_churn_event_backlog_newest_first(c) ==
    IF can_poll_churn(c) /\ c.churn_event_backlog # <<>>
    THEN [c |-> [c EXCEPT !.churn_event_backlog = Tail(@)],
          out |-> Some(Head(c.churn_event_backlog))]
    ELSE [c |-> c, out |-> None]

poll_churn_event_backlog(c) ==
    IF can_poll_churn(c) /\ c.churn_event_backlog # <<>>
    THEN [c |-> [c EXCEPT !.churn_event_backlog = SubSeq(@, 1, Len(@) - 1)],
          out |-> Some(c.churn_event_backlog[Len(c.churn_event_backlog)])]
    ELSE [c |-> c, out |-> None]

\* old_size and the size it is compared with are both our_info().len(), read before
\* and after EldersInfo::new, which does not change our_info.
promote_and_demote_elders(c) ==
    LET Merging(old_size) ==
            Cardinality(c.our_info.members) < elder_size /\ old_size >= elder_size
    IN  IF ~c.members_changed \/ ~can_poll_churn(c)
        THEN [c |-> c, out |-> None, panicked |-> FALSE]
        ELSE IF should_split(c)
        THEN [c |-> [c EXCEPT !.members_changed = FALSE, !.churn_in_progress = TRUE],
              out |-> Some(split_self(c)), panicked |-> FALSE]
        ELSE IF our_expected_elders(c) = c.our_info.members
        THEN [c |-> [c EXCEPT !.members_changed = FALSE], out |-> None,
              panicked |-> FALSE]
        ELSE IF Merging(Cardinality(c.our_info.members))
        THEN [c |-> c, out |-> None, panicked |-> TRUE]
        ELSE [c |-> [c EXCEPT !.members_changed = FALSE, !.churn_in_progress = TRUE],
              out |-> Some(<< NewEldersInfo(our_expected_elders(c), our_prefix(c),
                                            c.our_info) >>),
              panicked |-> FALSE]

\* The relocation queue with the entries of non-members popped off its back.
RECURSIVE DropNonMembers(_, _)
DropNonMembers(c, q) ==
    IF q = <<>> \/ IsMember(c, q[Len(q)].pub_id)
    THEN q
    ELSE DropNonMembers(c, SubSeq(q, 1, Len(q) - 1))

\* Variant: the details of a node that is still our elder are returned.
poll_relocation_of_elders(c) ==
    IF ~can_poll_churn(c) \/ c.churn_event_backlog # <<>>
    THEN [c |-> c, out |-> None]
    ELSE LET q == DropNonMembers(c, c.relocate_queue)
         IN  IF q = <<>>
             THEN [c |-> [c EXCEPT !.relocate_queue = q], out |-> None]
             ELSE [c |-> [c EXCEPT !.relocate_queue = SubSeq(q, 1, Len(q) - 1)],
                   out |-> Some(q[Len(q)])]

\* Variant: the entry of an elder is passed over and the rearmost entry of a member
\* that is not an elder is returned.
poll_relocation_passing_elders(c) ==
    IF ~can_poll_churn(c) \/ c.churn_event_backlog # <<>>
    THEN [c |-> c, out |-> None]
    ELSE LET q == DropNonMembers(c, c.relocate_queue)
             free == {i \in 1 .. Len(q) : /\ IsMember(c, q[i].pub_id)
                                          /\ ~is_peer_our_elder(c, q[i].pub_id)}
             pick(S) == CHOOSE i \in S : \A j \in S : j <= i
         IN  IF free = {}
             THEN [c |-> [c EXCEPT !.relocate_queue = q], out |-> None]
             ELSE [c |-> [c EXCEPT !.relocate_queue =
                             SubSeq(q, 1, pick(free) - 1)
                             \o SubSeq(q, pick(free) + 1, Len(q))],
                   out |-> Some(q[pick(free)])]

poll_relocation(c) ==
    IF ~can_poll_churn(c) \/ c.churn_event_backlog # <<>>
    THEN [c |-> c, out |-> None]
    ELSE LET q == DropNonMembers(c, c.relocate_queue)
         IN  IF q = <<>>
             THEN [c |-> [c EXCEPT !.relocate_queue = q], out |-> None]
             ELSE IF is_peer_our_elder(c, q[Len(q)].pub_id)
             THEN [c |-> [c EXCEPT !.relocate_queue = q], out |-> None]
             ELSE [c |-> [c EXCEPT !.relocate_queue = SubSeq(q, 1, Len(q) - 1)],
                   out |-> Some(q[Len(q)])]

(***************************************************************************)
(* Events and the accumulator (ConsensusEngine).                           *)
(***************************************************************************)
ChurnTypes == {"Online", "Offline", "Relocate"}

ChurnEvent(t, n) == [type |-> t, name |-> n]

SectionInfoEvent(info) ==
    [type |-> "SectionInfo", info |-> info, key_info |-> DkgKey(info.members)]

PlainEvent(t) == [type |-> t]

IsChurnEvent(e) == e.type \in ChurnTypes

NeighbourInfoEvent(info) == [type |-> "NeighbourInfo", info |-> info]

\* SectionMap::compatible: the known sections, ours included, whose prefix is
\* compatible with pfx.
compatible(c, pfx) ==
    {i \in {c.our_info} \cup c.neighbours : IsCompatible(i.prefix, pfx)}

\* "logged" is true after log_or_panic! fired: the call goes on in the builds that
\* log, and panics in the others.
section_info_transition(c, e, voters) ==
    IF ~QuorumOf(c.our_info, voters) THEN "false"
    ELSE IF ~IsSuccessorOf(e.info, c.our_info) THEN "logged"
    ELSE "true"

neighbour_info_transition(c, e, voters) ==
    IF ~QuorumOf(c.our_info, voters) THEN "false"
    ELSE IF \E i \in compatible(c, e.info.prefix) : e.info.version # i.version + 1
    THEN "false"
    ELSE "true"

\* Variant: any incomplete event is a valid transition, whatever its proofs.
is_valid_transition_first_come(c, e, voters) ==
    IF e.type = "StartDkg" THEN "unreachable" ELSE "true"

\* Variant: StartDkg is accumulated like the events that need a quorum.
is_valid_transition_start_dkg_quorum(c, e, voters) ==
    CASE e.type = "SectionInfo" -> section_info_transition(c, e, voters)
      [] e.type = "NeighbourInfo" -> neighbour_info_transition(c, e, voters)
      [] e.type = "SendAckMessage" ->
            IF TotalConsensusOf(c.our_info, voters) THEN "true" ELSE "false"
      [] OTHER ->
            IF QuorumOf(c.our_info, voters) THEN "true" ELSE "false"

\* Variant: a NeighbourInfo with a quorum is valid whatever its version.
is_valid_transition_any_version(c, e, voters) ==
    CASE e.type = "SectionInfo" -> section_info_transition(c, e, voters)
      [] e.type = "SendAckMessage" ->
            IF TotalConsensusOf(c.our_info, voters) THEN "true" ELSE "false"
      [] e.type = "StartDkg" -> "unreachable"
      [] OTHER ->
            IF QuorumOf(c.our_info, voters) THEN "true" ELSE "false"

\* Variant: SendAckMessage needs a quorum only.
is_valid_transition_ack_quorum(c, e, voters) ==
    CASE e.type = "SectionInfo" -> section_info_transition(c, e, voters)
      [] e.type = "NeighbourInfo" -> neighbour_info_transition(c, e, voters)
      [] e.type = "StartDkg" -> "unreachable"
      [] OTHER ->
            IF QuorumOf(c.our_info, voters) THEN "true" ELSE "false"

\* "unreachable" is the unreachable! of the StartDkg arm: a panic in every build.
is_valid_transition(c, e, voters) ==
    CASE e.type = "SectionInfo" -> section_info_transition(c, e, voters)
      [] e.type = "NeighbourInfo" -> neighbour_info_transition(c, e, voters)
      [] e.type = "SendAckMessage" ->
            IF TotalConsensusOf(c.our_info, voters) THEN "true" ELSE "false"
      [] e.type = "StartDkg" -> "unreachable"
      [] OTHER ->
            IF QuorumOf(c.our_info, voters) THEN "true" ELSE "false"

\* The index of the first incomplete event that is a valid transition; 0 when there
\* is none.
RECURSIVE FindValid(_, _)
FindValid(c, i) ==
    IF i > Len(c.accumulator) THEN 0
    ELSE IF is_valid_transition(c, c.accumulator[i].event,
                                Voters(c.accumulator[i].proofs)) # "false"
    THEN i
    ELSE FindValid(c, i + 1)

RemoveAt(q, i) == SubSeq(q, 1, i - 1) \o SubSeq(q, i + 1, Len(q))

\* ConsensusEngine::poll_event: the event leaves the accumulator iff its proofs are a
\* quorum of the elders passed in.
poll_event(c, i) ==
    IF QuorumOf(c.our_info, Voters(c.accumulator[i].proofs))
    THEN [c |-> [c EXCEPT !.accumulator = RemoveAt(@, i)],
          out |-> Some(c.accumulator[i])]
    ELSE [c |-> c, out |-> None]

\* find() stops at the first incomplete event that is a valid transition, so the
\* events after it are not examined.
poll_accumulator(c) ==
    LET Found(i, verdict) ==
            IF verdict = "unreachable"
            THEN [c |-> c, out |-> None, logged |-> FALSE, unreachable |-> TRUE]
            ELSE [c |-> poll_event(c, i).c, out |-> poll_event(c, i).out,
                  logged |-> verdict = "logged", unreachable |-> FALSE]
        At(i) ==
            IF i = 0
            THEN [c |-> c, out |-> None, logged |-> FALSE, unreachable |-> FALSE]
            ELSE Found(i, is_valid_transition(c, c.accumulator[i].event,
                                              Voters(c.accumulator[i].proofs)))
    IN  At(FindValid(c, 1))

\* ConsensusEngine::add_proof.
add_proof(c, e, proof) ==
    LET at == {i \in 1 .. Len(c.accumulator) : c.accumulator[i].event = e}
    IN  IF at = {}
        THEN [c EXCEPT !.accumulator = Append(@, [event |-> e, proofs |-> {proof}])]
        ELSE LET i == CHOOSE j \in at : TRUE
             IN  IF proof.voter \in Voters(c.accumulator[i].proofs) THEN c
                 ELSE [c EXCEPT !.accumulator[i].proofs = @ \cup {proof}]

(***************************************************************************)
(* The section map: our info, our history, the neighbours.                 *)
(***************************************************************************)
is_valid_neighbour(c, pfx) == ~IsCompatible(pfx, our_prefix(c))

prune_neighbours(c) ==
    [c EXCEPT !.neighbours =
        {i \in @ : /\ is_valid_neighbour(c, i.prefix)
                   /\ ~\E o \in @ : /\ IsCompatible(o.prefix, i.prefix)
                                    /\ o.version > i.version}]

add_neighbour(c, info) ==
    prune_neighbours([c EXCEPT !.neighbours =
        {i \in @ : i.prefix # info.prefix} \cup {info}])

push_our_new_info(c, info, proof_block) ==
    [c EXCEPT !.our_info = info, !.our_history = Append(@, proof_block)]

remove_our_members_not_matching_our_prefix(c) ==
    [c EXCEPT !.our_members =
        [n \in Names |-> IF Matches(our_prefix(c), n) THEN @[n] ELSE NoMember]]

\* AccumulatingProof::check_and_combine_signatures: the shares of a quorum of our
\* elders combine to a signature of our section key.
check_and_combine_signatures(c, proofs) ==
    QuorumOf(c.our_info, {p.voter : p \in {x \in proofs : x.share_ok}})

\* Variant: the key is looked up under the name of the last elder.
key_matching_last_elder_name(info, name_to_key) ==
    IF info.members = {} THEN None
    ELSE name_to_key[CHOOSE n \in info.members : \A m \in info.members : n >= m]

key_matching_first_elder_name(info, name_to_key) ==
    IF info.members = {} THEN None ELSE name_to_key[FirstName(info.members)]

NoKeys == [n \in Names |-> None]

\* Variant: only the DKG result that the commit uses is taken out of the map.
do_add_elders_info_keeping_other_keys(c, info, key_info, proofs) ==
    IF ~check_and_combine_signatures(c, proofs)
    THEN [c |-> c, err |-> "InvalidNewSectionInfo"]
    ELSE LET our_new_key == key_matching_first_elder_name(info, c.new_section_bls_keys)
             taken == IF info.members = {} THEN c
                      ELSE [c EXCEPT !.new_section_bls_keys[FirstName(info.members)] =
                                         None]
         IN  IF our_new_key = None
             THEN [c |-> taken, err |-> "InvalidElderDkgResult"]
             ELSE LET block == [key |-> key_info, signed_by |-> c.our_section_bls_keys]
                      pushed == push_our_new_info(taken, info, block)
                      keyed == [pushed EXCEPT !.our_section_bls_keys = our_new_key[1],
                                              !.churn_in_progress = FALSE]
                  IN  [c |-> remove_our_members_not_matching_our_prefix(
                                 prune_neighbours(keyed)),
                       err |-> "Ok"]

\* Variant: a commit that fails for want of a DKG result ends the churn.
do_add_elders_info_ending_churn(c, info, key_info, proofs) ==
    IF ~check_and_combine_signatures(c, proofs)
    THEN [c |-> c, err |-> "InvalidNewSectionInfo"]
    ELSE LET our_new_key == key_matching_first_elder_name(info, c.new_section_bls_keys)
             taken == [c EXCEPT !.new_section_bls_keys = NoKeys]
         IN  IF our_new_key = None
             THEN [c |-> [taken EXCEPT !.churn_in_progress = FALSE],
                   err |-> "InvalidElderDkgResult"]
             ELSE LET block == [key |-> key_info, signed_by |-> c.our_section_bls_keys]
                      pushed == push_our_new_info(taken, info, block)
                      keyed == [pushed EXCEPT !.our_section_bls_keys = our_new_key[1],
                                              !.churn_in_progress = FALSE]
                  IN  [c |-> remove_our_members_not_matching_our_prefix(
                                 prune_neighbours(keyed)),
                       err |-> "Ok"]

do_add_elders_info(c, info, key_info, proofs) ==
    IF ~check_and_combine_signatures(c, proofs)
    THEN [c |-> c, err |-> "InvalidNewSectionInfo"]
    ELSE LET our_new_key == key_matching_first_elder_name(info, c.new_section_bls_keys)
             taken == [c EXCEPT !.new_section_bls_keys = NoKeys]
         IN  IF our_new_key = None
             THEN [c |-> taken, err |-> "InvalidElderDkgResult"]
             ELSE LET block == [key |-> key_info, signed_by |-> c.our_section_bls_keys]
                      pushed == push_our_new_info(taken, info, block)
                      keyed == [pushed EXCEPT !.our_section_bls_keys = our_new_key[1],
                                              !.churn_in_progress = FALSE]
                  IN  [c |-> remove_our_members_not_matching_our_prefix(
                                 prune_neighbours(keyed)),
                       err |-> "Ok"]

\* Variant: the first child of a split to arrive is committed when it is ours.
add_elders_info_committing_first_child(c, info, key_info, proofs) ==
    IF /\ IsExtensionOf(info.prefix, our_prefix(c))
       /\ ~(c.split_cache = None /\ Matches(info.prefix, our_id))
    THEN IF c.split_cache = None
         THEN [c |-> [c EXCEPT !.split_cache =
                         Some([elders_info |-> info, key_info |-> key_info,
                               proofs |-> proofs])],
               handle |-> FALSE, err |-> "Ok"]
         ELSE LET cache == c.split_cache[1]
                  took == [c EXCEPT !.split_cache = None]
                  ours == IF Matches(cache.elders_info.prefix, our_id)
                          THEN cache
                          ELSE [elders_info |-> info, key_info |-> key_info,
                                proofs |-> proofs]
                  sibling == IF Matches(cache.elders_info.prefix, our_id)
                             THEN info
                             ELSE cache.elders_info
                  added == do_add_elders_info(took, ours.elders_info, ours.key_info,
                                              ours.proofs)
              IN  IF added.err # "Ok"
                  THEN [c |-> added.c, handle |-> FALSE, err |-> added.err]
                  ELSE [c |-> add_neighbour(added.c, sibling), handle |-> TRUE,
                        err |-> "Ok"]
    ELSE LET added == do_add_elders_info(c, info, key_info, proofs)
         IN  [c |-> added.c, handle |-> added.err = "Ok", err |-> added.err]

\* Variant: the sibling is added as a neighbour before our own info is updated.
add_elders_info_sibling_first(c, info, key_info, proofs) ==
    IF IsExtensionOf(info.prefix, our_prefix(c))
    THEN IF c.split_cache = None
         THEN [c |-> [c EXCEPT !.split_cache =
                         Some([elders_info |-> info, key_info |-> key_info,
                               proofs |-> proofs])],
               handle |-> FALSE, err |-> "Ok"]
         ELSE LET cache == c.split_cache[1]
                  took == [c EXCEPT !.split_cache = None]
                  ours == IF Matches(cache.elders_info.prefix, our_id)
                          THEN cache
                          ELSE [elders_info |-> info, key_info |-> key_info,
                                proofs |-> proofs]
                  sibling == IF Matches(cache.elders_info.prefix, our_id)
                             THEN info
                             ELSE cache.elders_info
                  added == do_add_elders_info(add_neighbour(took, sibling),
                                              ours.elders_info, ours.key_info,
                                              ours.proofs)
              IN  [c |-> added.c, handle |-> added.err = "Ok", err |-> added.err]
    ELSE LET added == do_add_elders_info(c, info, key_info, proofs)
         IN  [c |-> added.c, handle |-> added.err = "Ok", err |-> added.err]

\* Returns the chain, whether the caller should handle the event, and the error.
add_elders_info(c, info, key_info, proofs) ==
    IF IsExtensionOf(info.prefix, our_prefix(c))
    THEN IF c.split_cache = None
         THEN [c |-> [c EXCEPT !.split_cache =
                         Some([elders_info |-> info, key_info |-> key_info,
                               proofs |-> proofs])],
               handle |-> FALSE, err |-> "Ok"]
         ELSE LET cache == c.split_cache[1]
                  took == [c EXCEPT !.split_cache = None]
                  ours == IF Matches(cache.elders_info.prefix, our_id)
                          THEN cache
                          ELSE [elders_info |-> info, key_info |-> key_info,
                                proofs |-> proofs]
                  sibling == IF Matches(cache.elders_info.prefix, our_id)
                             THEN info
                             ELSE cache.elders_info
                  added == do_add_elders_info(took, ours.elders_info, ours.key_info,
                                              ours.proofs)
              IN  IF added.err # "Ok"
                  THEN [c |-> added.c, handle |-> FALSE, err |-> added.err]
                  ELSE [c |-> add_neighbour(added.c, sibling), handle |-> TRUE,
                        err |-> "Ok"]
    ELSE LET added == do_add_elders_info(c, info, key_info, proofs)
         IN  [c |-> added.c, handle |-> added.err = "Ok", err |-> added.err]

\* Variant: the info of a neighbour is inserted and nothing is replaced or pruned.
process_accumulating_unpruned(c, e, proofs) ==
    CASE e.type = "SectionInfo" ->
            LET r == add_elders_info(c, e.info, e.key_info, proofs)
            IN  [c |-> r.c, out |-> IF r.handle THEN Some(e) ELSE None, err |-> r.err]
      [] e.type = "NeighbourInfo" ->
            [c |-> [c EXCEPT !.neighbours = @ \cup {e.info}], out |-> Some(e),
             err |-> "Ok"]
      [] e.type = "ParsecPrune" ->
            [c |-> c, out |-> IF c.churn_in_progress THEN None ELSE Some(e), err |-> "Ok"]
      [] OTHER -> [c |-> c, out |-> Some(e), err |-> "Ok"]

process_accumulating(c, e, proofs) ==
    CASE e.type = "SectionInfo" ->
            LET r == add_elders_info(c, e.info, e.key_info, proofs)
            IN  [c |-> r.c, out |-> IF r.handle THEN Some(e) ELSE None, err |-> r.err]
      [] e.type = "NeighbourInfo" ->
            [c |-> add_neighbour(c, e.info), out |-> Some(e), err |-> "Ok"]
      [] e.type = "ParsecPrune" ->
            [c |-> c, out |-> IF c.churn_in_progress THEN None ELSE Some(e), err |-> "Ok"]
      [] OTHER -> [c |-> c, out |-> Some(e), err |-> "Ok"]

\* Variant: a churn event that cannot be polled yet is dropped.
check_ready_or_backlog_churn_event_dropping(c, e) ==
    IF IsChurnEvent(e) /\ ~can_poll_churn(c)
    THEN [c |-> c, out |-> None]
    ELSE [c |-> c, out |-> Some(e)]

check_ready_or_backlog_churn_event(c, e) ==
    IF IsChurnEvent(e) /\ ~can_poll_churn(c)
    THEN [c |-> [c EXCEPT !.churn_event_backlog = <<e>> \o @], out |-> None]
    ELSE [c |-> c, out |-> Some(e)]

(***************************************************************************)
(* poll_accumulated: the chain after the call, what the call returns, the  *)
(* step that produced it, the event taken out of the accumulator and       *)
(* whether that event went to the backlog.                                 *)
(***************************************************************************)
PollResult(c, ret, step, polled, backlogged, logged) ==
    [c |-> c, ret |-> ret, step |-> step, polled |-> polled, backlogged |-> backlogged,
     logged |-> logged]

RetNone == [kind |-> "None"]
RetPanic == [kind |-> "Panic"]
RetErr(e) == [kind |-> "Err", err |-> e]
RetEvent(e) == [kind |-> "AccumulatedEvent", event |-> e]
RetRelocate(d) == [kind |-> "RelocateDetails", details |-> d]
RetPromote(infos) == [kind |-> "PromoteDemoteElders", infos |-> infos]

\* check_and_combine_signatures calls log_or_panic! when the shares do not combine.
poll_from_accumulator(c) ==
    LET Checked(e, k, logged) ==
            IF k.out = None
            THEN PollResult(k.c, RetNone, "accumulator", Some(e), TRUE, logged)
            ELSE PollResult(k.c, RetEvent(e), "accumulator", Some(e), FALSE, logged)
        Processed(e, x, logged) ==
            IF x.err # "Ok"
            THEN PollResult(x.c, RetErr(x.err), "accumulator", Some(e), FALSE, logged)
            ELSE IF x.out = None
            THEN PollResult(x.c, RetNone, "accumulator", Some(e), FALSE, logged)
            ELSE Checked(e, check_ready_or_backlog_churn_event(x.c, e), logged)
        Accumulated(a, x) ==
            Processed(a.out[1].event, x, a.logged \/ x.err = "InvalidNewSectionInfo")
        Polled(a) ==
            IF a.unreachable
            THEN PollResult(a.c, RetPanic, "accumulator", None, FALSE, FALSE)
            ELSE IF a.out = None
            THEN PollResult(a.c, RetNone, "accumulator", None, FALSE, a.logged)
            ELSE Accumulated(a, process_accumulating(a.c, a.out[1].event,
                                                     a.out[1].proofs))
    IN  Polled(poll_accumulator(c))

\* Variant: relocation is polled before elder promotion and demotion.
poll_accumulated_relocation_first(c) ==
    LET Promoted(p) ==
            IF p.panicked
            THEN PollResult(p.c, RetPanic, "promote", None, FALSE, FALSE)
            ELSE IF p.out # None
            THEN PollResult(p.c, RetPromote(p.out[1]), "promote", None, FALSE, FALSE)
            ELSE poll_from_accumulator(p.c)
        Relocated(r) ==
            IF r.out # None
            THEN PollResult(r.c, RetRelocate(r.out[1]), "relocation", None, FALSE, FALSE)
            ELSE Promoted(promote_and_demote_elders(r.c))
        Drained(b) ==
            IF b.out # None
            THEN PollResult(b.c, RetEvent(b.out[1]), "backlog", None, FALSE, FALSE)
            ELSE Relocated(poll_relocation(b.c))
    IN  Drained(poll_churn_event_backlog(c))

poll_accumulated(c) ==
    LET Relocated(r) ==
            IF r.out # None
            THEN PollResult(r.c, RetRelocate(r.out[1]), "relocation", None, FALSE, FALSE)
            ELSE poll_from_accumulator(r.c)
        Promoted(p) ==
            IF p.panicked
            THEN PollResult(p.c, RetPanic, "promote", None, FALSE, FALSE)
            ELSE IF p.out # None
            THEN PollResult(p.c, RetPromote(p.out[1]), "promote", None, FALSE, FALSE)
            ELSE Relocated(poll_relocation(p.c))
        Drained(b) ==
            IF b.out # None
            THEN PollResult(b.c, RetEvent(b.out[1]), "backlog", None, FALSE, FALSE)
            ELSE Promoted(promote_and_demote_elders(b.c))
    IN  Drained(poll_churn_event_backlog(c))

(***************************************************************************)
(* The other operations of the chain.                                      *)
(***************************************************************************)
handle_genesis_event(c) ==
    [c EXCEPT !.members_changed = TRUE, !.handled_genesis_event = TRUE]

handle_dkg_result_event(c, participants) ==
    IF participants = {} THEN c
    ELSE [c EXCEPT !.new_section_bls_keys[FirstName(participants)] =
                       Some(DkgKey(participants))]

handle_opaque_event(c, e, proof) == add_proof(c, e, proof)

prepare_parsec_reset(c) ==
    [c EXCEPT !.accumulator = <<>>, !.handled_genesis_event = FALSE]

\* SharedState::add_member / remove_member age the other members; a member whose age
\* churns up is marked Relocating and its details go to the front of the queue.
schedule_relocation(c, r) ==
    IF r = None THEN c
    ELSE [c EXCEPT !.our_members[r[1]].state = "Relocating",
                   !.relocate_queue = <<[pub_id |-> r[1]]>> \o @]

add_member(c, n, age, r) ==
    schedule_relocation(
        [c EXCEPT !.our_members[n] = [age |-> age, state |-> "Joined"],
                  !.members_changed = TRUE], r)

remove_member(c, n, r) ==
    schedule_relocation(
        [c EXCEPT !.our_members[n] = NoMember, !.members_changed = TRUE], r)

(***************************************************************************)
(* The chain as a state machine.                                           *)
(***************************************************************************)
GenesisInfo == [prefix |-> <<>>, members |-> {0, 1}, version |-> 0]

NoOp == [op |-> "none", ret |-> RetNone]

InitialChain ==
               [churn_in_progress |-> FALSE,
                members_changed |-> FALSE,
                new_section_bls_keys |-> NoKeys,
                split_cache |-> None,
                our_section_bls_keys |-> DkgKey(GenesisInfo.members),
                handled_genesis_event |-> FALSE,
                churn_event_backlog |-> <<>>,
                relocate_queue |-> <<>>,
                our_members |-> [n \in Names |->
                                    IF n \in GenesisInfo.members
                                    THEN [age |-> 5, state |-> "Joined"]
                                    ELSE NoMember],
                our_info |-> GenesisInfo,
                our_history |-> <<[key |-> DkgKey(GenesisInfo.members),
                                   signed_by |-> DkgKey(GenesisInfo.members)]>>,
                neighbours |-> {},
                accumulator |-> <<>>]

ChainInit ==
    /\ chain = InitialChain
    /\ proposed = {}
    /\ last = NoOp
    /\ deferred = <<>>
    /\ churned = 0

Running == last.ret.kind # "Panic"

Members == {n \in Names : IsMember(chain, n)}

\* The relocations that a membership change triggered by n can schedule.
RelocationChoices(n) ==
    {None} \cup
    IF Len(chain.relocate_queue) < MaxRelocations
    THEN {Some(r) : r \in Joined(chain) \ {n, our_id}}
    ELSE {}

\* The events the section's nodes vote for.
VoteCandidates ==
    {ChurnEvent("Online", n) : n \in Names \ Members}
    \cup {ChurnEvent("Offline", n) : n \in Members \ {our_id}}
    \cup {ChurnEvent("Relocate", n) :
              n \in {m \in Members : chain.our_members[m].state = "Relocating"}}
    \cup {SectionInfoEvent(i) : i \in proposed}
    \cup {SectionInfoEvent([i EXCEPT !.version = @ + 1]) :
              i \in {j \in proposed : j.prefix = our_prefix(chain)}}
    \cup {PlainEvent("ParsecPrune")}

InAccumulator(e) == \E i \in 1 .. Len(chain.accumulator) : chain.accumulator[i].event = e

HandleOpaqueEvent ==
    /\ Running
    /\ \E e \in VoteCandidates, v \in chain.our_info.members, ok \in BOOLEAN :
        /\ InAccumulator(e) \/ Len(chain.accumulator) < MaxIncomplete
        /\ InAccumulator(e) \/ ~IsChurnEvent(e) \/ churned < MaxChurn
        /\ ok \/ (e.type = "SectionInfo" /\ v # our_id)
        /\ v \notin UNION {Voters(chain.accumulator[i].proofs) :
                              i \in {j \in 1 .. Len(chain.accumulator) :
                                        chain.accumulator[j].event = e}}
        /\ chain' = handle_opaque_event(chain, e, [voter |-> v, share_ok |-> ok])
        /\ churned' = IF IsChurnEvent(e) /\ ~InAccumulator(e) THEN churned + 1
                      ELSE churned
    /\ last' = NoOp
    /\ UNCHANGED <<proposed, deferred>>
    /\ UNCHANGED <<capVars, idm, nodeVars>>

HandleGenesisEvent ==
    /\ Running
    /\ ~chain.handled_genesis_event
    /\ chain' = handle_genesis_event(chain)
    /\ last' = NoOp
    /\ UNCHANGED <<proposed, deferred, churned>>
    /\ UNCHANGED <<capVars, idm, nodeVars>>

HandleDkgResultEvent ==
    /\ Running
    /\ \E i \in proposed :
        /\ i.members # {}
        /\ chain.new_section_bls_keys[FirstName(i.members)] = None
        /\ chain' = handle_dkg_result_event(chain, i.members)
    /\ last' = NoOp
    /\ UNCHANGED <<proposed, deferred, churned>>
    /\ UNCHANGED <<capVars, idm, nodeVars>>

\* The node handles the churn event that poll_accumulated just returned to it.
Returned(t, n) ==
    /\ last.ret.kind = "AccumulatedEvent"
    /\ last.ret.event = ChurnEvent(t, n)

AddMember ==
    /\ Running
    /\ ~chain.churn_in_progress
    /\ \E n \in Names \ Members, age \in Ages, r \in RelocationChoices(our_id) :
        /\ Returned("Online", n)
        /\ Matches(our_prefix(chain), n)
        /\ chain' = add_member(chain, n, age, IF r = Some(n) THEN None ELSE r)
    /\ last' = NoOp
    /\ UNCHANGED <<proposed, deferred, churned>>
    /\ UNCHANGED <<capVars, idm, nodeVars>>

RemoveMember ==
    /\ Running
    /\ ~chain.churn_in_progress
    /\ \E n \in Members \ {our_id} : \E r \in RelocationChoices(n) :
        /\ Returned("Offline", n) \/ Returned("Relocate", n)
        /\ chain' = remove_member(chain, n, r)
    /\ last' = NoOp
    /\ UNCHANGED <<proposed, deferred, churned>>
    /\ UNCHANGED <<capVars, idm, nodeVars>>

\* In the builds where log_or_panic! panics, a call that reaches it ends the node.
PollAccumulated ==
    /\ Running
    /\ \E build_panics \in BOOLEAN, res \in {poll_accumulated(chain)} :
        LET due == IF deferred = <<>> THEN None ELSE Some(Head(deferred))
        IN  IF res.ret.kind = "Panic" \/ (build_panics /\ res.logged)
            THEN /\ last' = [op |-> "poll_accumulated", pre |-> chain, ret |-> RetPanic,
                             step |-> res.step, polled |-> res.polled,
                             backlogged |-> FALSE, due |-> due]
                 /\ UNCHANGED <<chain, proposed, deferred, churned>>
            ELSE /\ chain' = res.c
                 /\ last' = [op |-> "poll_accumulated", pre |-> chain, ret |-> res.ret,
                             step |-> res.step, polled |-> res.polled,
                             backlogged |-> res.backlogged, due |-> due]
                 /\ proposed' =
                        IF res.ret.kind = "PromoteDemoteElders"
                        THEN {res.ret.infos[i] : i \in 1 .. Len(res.ret.infos)}
                        ELSE IF res.polled # None /\ res.polled[1].type = "SectionInfo"
                        THEN {i \in proposed : i.prefix # res.polled[1].info.prefix}
                        ELSE proposed
                 /\ deferred' = IF res.backlogged THEN Append(deferred, res.polled[1])
                                ELSE IF res.step = "backlog" /\ deferred # <<>>
                                THEN Tail(deferred)
                                ELSE deferred
                 /\ UNCHANGED churned
    /\ UNCHANGED <<capVars, idm, nodeVars>>

ChainNext ==
    \/ HandleOpaqueEvent
    \/ HandleGenesisEvent
    \/ HandleDkgResultEvent
    \/ AddMember
    \/ RemoveMember
    \/ PollAccumulated

(***************************************************************************)
(* The accumulator of a node of an established section: the elders vote    *)
(* for neighbour infos, acknowledgements, user events and DKG starts, and  *)
(* for the next info of our section.                                       *)
(***************************************************************************)
\* Chain::new for the genesis info of a section.
NewChain(gen_info) ==
    [InitialChain EXCEPT
        !.our_info = gen_info,
        !.our_section_bls_keys = DkgKey(gen_info.members),
        !.our_members = [n \in Names |-> IF n \in gen_info.members
                                         THEN [age |-> 5, state |-> "Joined"]
                                         ELSE NoMember],
        !.our_history = <<[key |-> DkgKey(gen_info.members),
                           signed_by |-> DkgKey(gen_info.members)]>>]

\* The sections the node starts in: the whole network with four elders, the whole
\* network with an elder in each half, and the section of prefix 0.
SplittingInfo == [prefix |-> <<>>, members |-> {0, 2}, version |-> 0]

GenesisInfos ==
    {[prefix |-> <<>>, members |-> Names, version |-> 0],
     SplittingInfo,
     [prefix |-> <<0>>, members |-> {0, 1}, version |-> 0]}

\* The next infos of our section: the section with an elder in each half splits into
\* the halves of the first bit.
NextInfos(gen_info) ==
    IF gen_info = SplittingInfo
    THEN {NewEldersInfo({n \in gen_info.members : Matches(<<b>>, n)}, <<b>>, gen_info) :
              b \in {0, 1}}
    ELSE {}

\* The infos of the other sections: every name of the prefix is an elder, or every
\* name but the last.
NeighbourPrefixes == {<<1>>, <<1, 0>>, <<1, 1>>}

NeighbourElders(p) ==
    LET all == {n \in Names : Matches(p, n)}
    IN  {all, {n \in all : \E m \in all : m > n}} \ {{}}

NeighbourProposals ==
    UNION {{[prefix |-> p, members |-> m, version |-> v] :
               m \in NeighbourElders(p), v \in 1 .. MaxVersion} : p \in NeighbourPrefixes}

SectionVoteCandidates ==
    {NeighbourInfoEvent(i) : i \in NeighbourProposals}
    \cup {SectionInfoEvent(i) : i \in proposed}
    \cup {PlainEvent("SendAckMessage"), PlainEvent("User"), PlainEvent("StartDkg")}

SectionsInit ==
    /\ \E gen_info \in GenesisInfos :
        /\ chain = NewChain(gen_info)
        /\ proposed = NextInfos(gen_info)
    /\ last = NoOp
    /\ deferred = <<>>
    /\ churned = 0

\* handle_opaque_event for the vote of an elder of our section.
VoteSectionEvent ==
    /\ Running
    /\ \E e \in SectionVoteCandidates, v \in chain.our_info.members :
        /\ InAccumulator(e) \/ Len(chain.accumulator) < MaxIncomplete
        /\ v \notin UNION {Voters(chain.accumulator[i].proofs) :
                              i \in {j \in 1 .. Len(chain.accumulator) :
                                        chain.accumulator[j].event = e}}
        /\ chain' = handle_opaque_event(chain, e, [voter |-> v, share_ok |-> TRUE])
    /\ last' = NoOp
    /\ UNCHANGED <<proposed, deferred, churned>>
    /\ UNCHANGED <<capVars, idm, nodeVars>>

SectionsNext ==
    \/ VoteSectionEvent
    \/ HandleDkgResultEvent
    \/ PollAccumulated

(***************************************************************************)
(* Capacity (capacity/mod.rs): the storage level of one adult, behind the  *)
(* RwLock of the map and the RwLock of the level, and the tasks that call  *)
(* set_adult_level on it.  A step of a task runs up to its next .await.    *)
(***************************************************************************)
Tasks == 1 .. MaxTasks

Levels == 0 .. MaxLevel

Max(S) == CHOOSE x \in S : \A y \in S : y <= x

IdleTask == [pc |-> "idle", new_level |-> 0, current_level |-> 0, changed |-> FALSE]

CapInit ==
    /\ adult_levels \in {None} \cup {Some(l) : l \in Levels}
    /\ initial_level = adult_levels
    /\ top_lock = [readers |-> {}, writer |-> None]
    /\ task = [t \in Tasks |-> IdleTask]

\* The state of the capacity machine in the specifications of the other machines.
CapIdle ==
    /\ adult_levels = None
    /\ initial_level = None
    /\ top_lock = [readers |-> {}, writer |-> None]
    /\ task = [t \in Tasks |-> IdleTask]

\* The state of the chain in the specifications of the other machines.
ChainIdle ==
    /\ chain = InitialChain
    /\ proposed = {}
    /\ last = NoOp
    /\ deferred = <<>>
    /\ churned = 0

\* The state of the routing Core and of the sn Node in the specifications of the
\* other machines.
NodeIdle ==
    /\ core = [elders |-> {}, members |-> {}, op |-> "new", old_adults |-> {},
               events |-> <<>>, ret |-> "Ok"]
    /\ node = [elders |-> {}, membership |-> None, op |-> "new", pre |-> None,
               response |-> "None", cmds |-> <<>>, ret |-> "Ok"]

\* A task calls set_adult_level(adult, new_level).
Call(t) ==
    /\ task[t].pc = "idle"
    /\ \E l \in Levels :
        task' = [task EXCEPT ![t] = [@ EXCEPT !.pc = "top_read", !.new_level = l]]
    /\ UNCHANGED <<adult_levels, top_lock, initial_level>>
    /\ UNCHANGED <<chainVars, idm, nodeVars>>

\* self.adult_levels.read().await, then all_levels.get(&adult): a tracked adult keeps
\* the task under the read lock, an untracked one makes it drop the lock.
AcquireTopRead(t) ==
    /\ task[t].pc = "top_read"
    /\ top_lock.writer = None
    /\ IF adult_levels # None
       THEN /\ top_lock' = [top_lock EXCEPT !.readers = @ \cup {t}]
            /\ task' = [task EXCEPT ![t].pc = "level_read"]
       ELSE /\ task' = [task EXCEPT ![t].pc = "top_write"]
            /\ UNCHANGED top_lock
    /\ UNCHANGED <<adult_levels, initial_level>>
    /\ UNCHANGED <<chainVars, idm, nodeVars>>

\* Variant: a level that is equal to the stored one replaces it too.
ReadLevelReplacingEqual(t) ==
    /\ task[t].pc = "level_read"
    /\ IF task[t].new_level >= adult_levels[1]
       THEN /\ task' = [task EXCEPT ![t] = [@ EXCEPT !.pc = "level_write",
                                                      !.current_level = adult_levels[1]]]
            /\ UNCHANGED top_lock
       ELSE /\ task' = [task EXCEPT ![t] = [@ EXCEPT !.pc = "done",
                                                      !.current_level = adult_levels[1],
                                                      !.changed = FALSE]]
            /\ top_lock' = [top_lock EXCEPT !.readers = @ \ {t}]
    /\ UNCHANGED <<adult_levels, initial_level>>
    /\ UNCHANGED <<chainVars, idm, nodeVars>>

\* level.read().await.value(), then the comparison with new_level.
ReadLevel(t) ==
    /\ task[t].pc = "level_read"
    /\ IF task[t].new_level > adult_levels[1]
       THEN /\ task' = [task EXCEPT ![t] = [@ EXCEPT !.pc = "level_write",
                                                      !.current_level = adult_levels[1]]]
            /\ UNCHANGED top_lock
       ELSE /\ task' = [task EXCEPT ![t] = [@ EXCEPT !.pc = "done",
                                                      !.current_level = adult_levels[1],
                                                      !.changed = FALSE]]
            /\ top_lock' = [top_lock EXCEPT !.readers = @ \ {t}]
    /\ UNCHANGED <<adult_levels, initial_level>>
    /\ UNCHANGED <<chainVars, idm, nodeVars>>

\* *level.write().await = new_level; return true.
WriteLevel(t) ==
    /\ task[t].pc = "level_write"
    /\ adult_levels' = Some(task[t].new_level)
    /\ task' = [task EXCEPT ![t] = [@ EXCEPT !.pc = "done", !.changed = TRUE]]
    /\ top_lock' = [top_lock EXCEPT !.readers = @ \ {t}]
    /\ UNCHANGED initial_level
    /\ UNCHANGED <<chainVars, idm, nodeVars>>

\* self.adult_levels.write().await.
AcquireTopWrite(t) ==
    /\ task[t].pc = "top_write"
    /\ top_lock.writer = None
    /\ top_lock.readers = {}
    /\ top_lock' = [top_lock EXCEPT !.writer = Some(t)]
    /\ task' = [task EXCEPT ![t].pc = "recheck"]
    /\ UNCHANGED <<adult_levels, initial_level>>
    /\ UNCHANGED <<chainVars, idm, nodeVars>>

\* Under the write lock no other task is between its read and its write of the
\* level: the second check, the write or the insert, and the release are one step.
RecheckUnderWrite(t) ==
    /\ task[t].pc = "recheck"
    /\ IF adult_levels # None
       THEN IF task[t].new_level > adult_levels[1]
            THEN /\ adult_levels' = Some(task[t].new_level)
                 /\ task' = [task EXCEPT ![t] = [@ EXCEPT !.pc = "done",
                                                           !.current_level = adult_levels[1],
                                                           !.changed = TRUE]]
            ELSE /\ task' = [task EXCEPT ![t] = [@ EXCEPT !.pc = "done",
                                                           !.current_level = adult_levels[1],
                                                           !.changed = FALSE]]
                 /\ UNCHANGED adult_levels
       ELSE /\ adult_levels' = Some(task[t].new_level)
            /\ task' = [task EXCEPT ![t] = [@ EXCEPT !.pc = "done", !.changed = TRUE]]
    /\ top_lock' = [top_lock EXCEPT !.writer = None]
    /\ UNCHANGED initial_level
    /\ UNCHANGED <<chainVars, idm, nodeVars>>

CapNext ==
    \E t \in Tasks :
        \/ Call(t)
        \/ AcquireTopRead(t)
        \/ ReadLevel(t)
        \/ WriteLevel(t)
        \/ AcquireTopWrite(t)
        \/ RecheckUnderWrite(t)

\* Calls that do not overlap: a task calls set_adult_level when no call of another
\* task is under way.
SequentialCall(t) ==
    /\ \A u \in Tasks \ {t} : task[u].pc \in {"idle", "done"}
    /\ Call(t)

SeqCapNext ==
    \E t \in Tasks :
        \/ SequentialCall(t)
        \/ AcquireTopRead(t)
        \/ ReadLevel(t)
        \/ WriteLevel(t)
        \/ AcquireTopWrite(t)
        \/ RecheckUnderWrite(t)

(***************************************************************************)
(* ImmutableDataManager (personas/immutable_data_manager.rs) for one chunk *)
(* that this vault manages.  A node's name is its distance to the chunk.   *)
(***************************************************************************)
REPLICANTS == 2

GROUP_SIZE == 3

Nodes == 1 .. MaxNodes

DataHolder(n, s) == [name |-> n, state |-> s]

HolderNames(holders) == {h.name : h \in holders}

Active(holders) == {h \in holders : h.state \in {"Pending", "Good"}}

\* The k members of S closest to the chunk.
Closest(S, k) == {n \in S : Cardinality({x \in S : x < n}) < k}

\* routing_node.close_group(data_name): the connected nodes closest to the chunk.
close_group(m) == Closest(m.connected, GROUP_SIZE)

\* A message handed to routing_node: a request to the manager of node dst, or (dst = 0)
\* a message to the requester or to the managers of the other copies of the chunk.
Msg(kind, dst) == [kind |-> kind, dst |-> dst]

Reply(kind) == Msg(kind, 0)

\* routing_node.send_*: every message of msgs is sent once.
send(m, msgs) == [m EXCEPT !.out = @ (+) SetToBag(msgs)]

\* How often the last handler sent the message.
Sent(m, msg) == CopiesIn(msg, m.out)

\* The filter of handle_node_added and handle_churn_for_ongoing_gets: a holder stays
\* if it is at least as close as the last member of a full close group.
StillClose(m, holders) ==
    IF Cardinality(close_group(m)) < GROUP_SIZE THEN holders
    ELSE {h \in holders : h.name <= Max(close_group(m))}

\* PendingGetRequest::new: the Good holders of the account are queried.
PendingGetRequest(holders) ==
    [data_holders |-> {DataHolder(h.name, "Pending") :
                          h \in {x \in holders : x.state = "Good"}},
     data |-> FALSE, client |-> FALSE]

\* PendingGetRequest::send_get_requests.
send_get_requests(m, entry) ==
    [send(m, {Msg("Get", n) : n \in HolderNames(entry.data_holders)})
        EXCEPT !.gets = @ \cup (HolderNames(entry.data_holders) \cap m.connected)]

\* Variant: the full nodes are not left out.
choose_initial_data_holders_with_full(m, full_pmid_nodes) ==
    {DataHolder(n, "Pending") : n \in Closest(close_group(m), REPLICANTS)}

choose_initial_data_holders(m, full_pmid_nodes) ==
    {DataHolder(n, "Pending") : n \in Closest(close_group(m) \ full_pmid_nodes, REPLICANTS)}

\* The request comes from the ClientManager, which is sent the PutSuccess; the copies
\* for the Backup and the Sacrificial managers follow the Puts to the holders.
handle_put(m, full_pmid_nodes) ==
    IF m.account # None THEN send(m, {Reply("PutSuccess")})
    ELSE LET target_data_holders == choose_initial_data_holders(m, full_pmid_nodes)
         IN  [send(m, {Reply("PutSuccess"), Reply("PutBackup"), Reply("PutSacrificial")}
                      \cup {Msg("Put", h.name) : h \in target_data_holders})
                 EXCEPT !.account = Some(target_data_holders),
                        !.data_cache = TRUE,
                        !.puts = @ \cup HolderNames(target_data_holders)]

\* Variant: a success for a holder that is not Pending is accepted.
handle_put_success_accepting_repeat(m, pmid_node) ==
    IF m.account = None THEN [m EXCEPT !.ret = "InvalidResponse"]
    ELSE IF DataHolder(pmid_node, "Pending") \notin m.account[1] THEN m
    ELSE [m EXCEPT !.account = Some((@[1] \ {DataHolder(pmid_node, "Pending")})
                                    \cup {DataHolder(pmid_node, "Good")}),
                   !.data_cache = FALSE]

handle_put_success(m, pmid_node) ==
    IF m.account = None THEN [m EXCEPT !.ret = "InvalidResponse"]
    ELSE IF DataHolder(pmid_node, "Pending") \notin m.account[1]
    THEN [m EXCEPT !.ret = "InvalidResponse"]
    ELSE [m EXCEPT !.account = Some((@[1] \ {DataHolder(pmid_node, "Pending")})
                                    \cup {DataHolder(pmid_node, "Good")}),
                   !.data_cache = FALSE]

\* Variant: the replacement is the closest node that is not an active holder.
handle_put_failure_retrying_failed(m, pmid_node) ==
    IF m.account = None THEN [m EXCEPT !.ret = "InvalidResponse"]
    ELSE IF DataHolder(pmid_node, "Pending") \notin m.account[1]
    THEN [m EXCEPT !.ret = "InvalidResponse"]
    ELSE LET failed == (m.account[1] \ {DataHolder(pmid_node, "Pending")})
                       \cup {DataHolder(pmid_node, "Failed")}
             untried == close_group(m) \ HolderNames(Active(failed))
         IN  IF untried = {}
             THEN [m EXCEPT !.account = Some(failed),
                            !.ret = "UnableToAllocateNewPmidNode"]
             ELSE [send(m, {Msg("Put", n) : n \in Closest(untried, 1)})
                      EXCEPT !.account =
                               Some(failed \cup {DataHolder(Max(Closest(untried, 1)),
                                                            "Pending")}),
                             !.puts = @ \cup Closest(untried, 1)]

handle_put_failure(m, pmid_node) ==
    IF m.account = None THEN [m EXCEPT !.ret = "InvalidResponse"]
    ELSE IF DataHolder(pmid_node, "Pending") \notin m.account[1]
    THEN [m EXCEPT !.ret = "InvalidResponse"]
    ELSE LET failed == (m.account[1] \ {DataHolder(pmid_node, "Pending")})
                       \cup {DataHolder(pmid_node, "Failed")}
             untried == close_group(m) \ HolderNames(failed)
         IN  IF untried = {}
             THEN [m EXCEPT !.account = Some(failed),
                            !.ret = "UnableToAllocateNewPmidNode"]
             ELSE [send(m, {Msg("Put", n) : n \in Closest(untried, 1)})
                      EXCEPT !.account =
                               Some(failed \cup {DataHolder(Max(Closest(untried, 1)),
                                                            "Pending")}),
                             !.puts = @ \cup Closest(untried, 1)]

\* One Get for every holder of the set: a node with two entries is asked twice.
GetRequests(holders) ==
    [msg \in {Msg("Get", h.name) : h \in holders} |->
        Cardinality({h \in holders : h.name = msg.dst})]

\* Variant: a get for a chunk without an account is not answered.
handle_get_unanswered_without_account(m) ==
    IF m.account = None THEN m
    ELSE LET from_cache(x) == IF x.data_cache
                              THEN [send(x, {Reply("GetSuccess")}) EXCEPT !.answered = 1]
                              ELSE [x EXCEPT !.answered = 0]
             holders == HolderNames(Active(m.account[1]))
         IN  [from_cache(m)
                 EXCEPT !.out = @ (+) GetRequests(Active(m.account[1])),
                        !.gets = @ \cup (holders \cap m.connected),
                        !.ongoing_get =
                            Some([data_holders |-> {DataHolder(n, "Pending") : n \in holders},
                                  data |-> FALSE, client |-> TRUE])]

\* Variant: the Failed holders are asked too.
handle_get_asking_failed(m) ==
    IF m.account = None THEN send(m, {Reply("GetFailure")})
    ELSE LET from_cache(x) == IF x.data_cache
                              THEN [send(x, {Reply("GetSuccess")}) EXCEPT !.answered = 1]
                              ELSE [x EXCEPT !.answered = 0]
             holders == HolderNames(m.account[1])
         IN  [from_cache(m)
                 EXCEPT !.out = @ (+) GetRequests(m.account[1]),
                        !.gets = @ \cup (holders \cap m.connected),
                        !.ongoing_get =
                            Some([data_holders |-> {DataHolder(n, "Pending") : n \in holders},
                                  data |-> FALSE, client |-> TRUE])]

\* handle_get: without an account the requester is sent the failure; with one, the
\* chunk is sent from data_cache if it is there, and the Good and the Pending holders
\* are asked for the chunk.
handle_get(m) ==
    IF m.account = None THEN send(m, {Reply("GetFailure")})
    ELSE LET from_cache(x) == IF x.data_cache
                              THEN [send(x, {Reply("GetSuccess")}) EXCEPT !.answered = 1]
                              ELSE [x EXCEPT !.answered = 0]
             holders == HolderNames(Active(m.account[1]))
         IN  [from_cache(m)
                 EXCEPT !.out = @ (+) GetRequests(Active(m.account[1])),
                        !.gets = @ \cup (holders \cap m.connected),
                        !.ongoing_get =
                            Some([data_holders |-> {DataHolder(n, "Pending") : n \in holders},
                                  data |-> FALSE, client |-> TRUE])]

find_and_reply_to_requestor(m) ==
    IF m.ongoing_get = None THEN m
    ELSE [send(m, {Reply("GetSuccess")})
             EXCEPT !.ongoing_get = None,
                    !.answered = IF m.ongoing_get[1].client THEN @ + 1 ELSE @]

update_good_dataholder_in_account(m, src) ==
    IF m.account # None
    THEN [m EXCEPT !.account = Some(@[1] \cup {DataHolder(src, "Good")})]
    ELSE [m EXCEPT !.account = Some({DataHolder(src, "Good")})]

handle_client_get_success(m, src) ==
    update_good_dataholder_in_account(find_and_reply_to_requestor(m), src)

new_replicants_count(holders) ==
    IF Cardinality(Active(holders)) < REPLICANTS
    THEN REPLICANTS - Cardinality(Active(holders))
    ELSE 0

\* The Pending holders replicate_after_get chooses.
replicate_after_get(m, queried_data_holders) ==
    LET good_nodes == {h \in queried_data_holders : h.state = "Good"}
        nodes_to_exclude == HolderNames(queried_data_holders)
    IN  {DataHolder(n, "Pending") :
            n \in Closest(close_group(m) \ nodes_to_exclude,
                          REPLICANTS - Cardinality(good_nodes))}

\* The chunk is Normal: no failure goes to the requesters, and the managers of the
\* other copies are asked for it.
recover_from_other_locations(m) ==
    send(send_get_requests([m EXCEPT !.ongoing_get[1].data_holders = {}],
                           [data_holders |-> {}, data |-> FALSE]),
         {Msg("Get", 0)})

check_and_replicate_after_get(m) ==
    IF m.ongoing_get = None THEN m
    ELSE LET metadata == m.ongoing_get[1]
             good_holder_count ==
                 Cardinality({h \in metadata.data_holders : h.state = "Good"})
         IN  IF \E h \in metadata.data_holders : h.state = "Pending" THEN m
             ELSE IF good_holder_count >= REPLICANTS
             THEN [m EXCEPT !.ongoing_get = None]
             ELSE IF metadata.data
             THEN LET new_data_holders ==
                          replicate_after_get(m, metadata.data_holders)
                  IN  [send(m, {Msg("Put", h.name) : h \in new_data_holders})
                          EXCEPT !.ongoing_get = None,
                                 !.puts = @ \cup HolderNames(new_data_holders),
                                 !.account = IF @ = None THEN @
                                             ELSE Some(@[1] \cup new_data_holders)]
             ELSE recover_from_other_locations(m)

\* find_ongoing_get_after_failure finds the ongoing get of the chunk, if there is one.
handle_get_failure(m, pmid_node) ==
    LET marked == IF m.ongoing_get = None THEN m
                  ELSE [m EXCEPT !.ongoing_get[1].data_holders =
                                     @ \cup {DataHolder(pmid_node, "Failed")}]
        failed == IF marked.account = None THEN marked
                  ELSE [marked EXCEPT !.account =
                                          Some(@[1] \cup {DataHolder(pmid_node, "Failed")})]
    IN  IF m.ongoing_get = None THEN [failed EXCEPT !.ret = "FailedToFindCachedRequest"]
        ELSE check_and_replicate_after_get(failed)

check_timeout(m) ==
    IF m.ongoing_get = None THEN m
    ELSE LET timed_out == {h.name : h \in {x \in m.ongoing_get[1].data_holders :
                                              x.state = "Pending"}}
             expire(holders) ==
                 {IF h.state = "Pending" THEN DataHolder(h.name, "Failed") ELSE h :
                     h \in holders}
             fail_good(holders) ==
                 {IF h.state = "Good" /\ h.name \in timed_out
                  THEN DataHolder(h.name, "Failed") ELSE h : h \in holders}
         IN  check_and_replicate_after_get(
                 [m EXCEPT !.ongoing_get[1].data_holders = expire(@),
                           !.account = IF @ = None THEN @ ELSE Some(fail_good(@[1]))])

\* Returns the manager and whether puts were sent from the data cache.
handle_churn_for_ongoing_puts(m, count) ==
    IF ~m.data_cache THEN [m |-> m, handled |-> FALSE]
    ELSE LET new == Closest(close_group(m) \ HolderNames(m.account[1]), count)
         IN  [m |-> [send(m, {Msg("Put", n) : n \in new})
                        EXCEPT !.account = Some(@[1] \cup {DataHolder(n, "Pending") :
                                                              n \in new}),
                               !.puts = @ \cup new],
              handled |-> TRUE]

handle_churn_for_ongoing_gets(m) ==
    IF m.ongoing_get = None THEN [m |-> m, handled |-> FALSE]
    ELSE [m |-> [m EXCEPT !.ongoing_get[1].data_holders = StillClose(m, @)],
          handled |-> TRUE]

handle_churn_for_account(m) ==
    LET count == new_replicants_count(m.account[1])
        p == handle_churn_for_ongoing_puts(m, count)
        g == handle_churn_for_ongoing_gets(p.m)
        entry == PendingGetRequest(m.account[1])
    IN  IF count = 0 THEN m
        ELSE IF p.handled THEN p.m
        ELSE IF g.handled THEN g.m
        ELSE send_get_requests([m EXCEPT !.ongoing_get = Some(entry)], entry)

handle_node_added(m, node_name) ==
    LET joined == [m EXCEPT !.connected = @ \cup {node_name}]
    IN  IF joined.account = None THEN joined
        ELSE IF node_name \in close_group(joined)
        THEN handle_churn_for_account(
                 [joined EXCEPT !.account = Some(StillClose(joined, @[1]))])
        ELSE handle_churn_for_account(joined)

handle_node_lost(m, node_name) ==
    LET left == [m EXCEPT !.connected = @ \ {node_name},
                          !.puts = @ \ {node_name},
                          !.gets = @ \ {node_name}]
    IN  IF left.account = None THEN left
        ELSE handle_churn_for_account(
                 [left EXCEPT !.account = Some({h \in @[1] : h.name # node_name})])

(***************************************************************************)
(* The data manager as a state machine: the client's put and get, the      *)
(* answers of the holders, the timeout and the churn of the close group.   *)
(* op, arg, ret and out describe the last call: the handler, the node (or  *)
(* the full nodes) it was called with, its result and the messages it      *)
(* sent; answered counts the GetSuccess replies to the last client Get.    *)
(***************************************************************************)
\* The holders: a node that is not full stores the chunk of a Put sent to it, and a
\* node that leaves the routing table takes its copy with it.
Holders(old, new) ==
    [new EXCEPT !.stored = ((@ \cup (new.puts \ old.puts)) \ new.full) \cap new.connected]

\* The manager at the start of a call of handler op with argument arg.
Called(op, arg) == [idm EXCEPT !.op = op, !.arg = arg, !.ret = "Ok", !.out = EmptyBag]

IdmInit ==
    \E full \in {{}, {1}}, connected \in {1 .. GROUP_SIZE, (MaxNodes - 1) .. MaxNodes} :
        idm = [connected |-> connected, full |-> full, account |-> None,
               data_cache |-> FALSE, ongoing_get |-> None, puts |-> {}, gets |-> {},
               stored |-> {}, churn |-> 0,
               op |-> "new", arg |-> {}, ret |-> "Ok", out |-> EmptyBag, answered |-> 0]

\* The state of the data manager in the specifications of the other machines.
IdmIdle ==
    idm = [connected |-> 1 .. GROUP_SIZE, full |-> {}, account |-> None,
           data_cache |-> FALSE, ongoing_get |-> None, puts |-> {}, gets |-> {},
           stored |-> {}, churn |-> 0,
           op |-> "new", arg |-> {}, ret |-> "Ok", out |-> EmptyBag, answered |-> 0]

Put ==
    /\ \E known \in SUBSET idm.full :
        idm' = Holders(idm, handle_put(Called("handle_put", known), known))
    /\ UNCHANGED <<chainVars, capVars, nodeVars>>

\* A holder answers a Put, and a holder that stores the chunk may answer once more.
PutSuccess ==
    /\ \E n \in (idm.puts \ idm.full) \cup idm.stored :
        idm' = Holders(idm, handle_put_success(
                                [Called("handle_put_success", {n}) EXCEPT !.puts = @ \ {n}],
                                n))
    /\ UNCHANGED <<chainVars, capVars, nodeVars>>

PutFailure ==
    /\ \E n \in idm.puts \cap idm.full :
        idm' = Holders(idm, handle_put_failure(
                                [Called("handle_put_failure", {n}) EXCEPT !.puts = @ \ {n}],
                                n))
    /\ UNCHANGED <<chainVars, capVars, nodeVars>>

Get ==
    /\ idm' = Holders(idm, handle_get(Called("handle_get", {})))
    /\ UNCHANGED <<chainVars, capVars, nodeVars>>

GetSuccess ==
    /\ \E n \in idm.gets \cap idm.stored :
        idm' = Holders(idm, handle_client_get_success(
                                [Called("handle_client_get_success", {n})
                                    EXCEPT !.gets = @ \ {n}],
                                n))
    /\ UNCHANGED <<chainVars, capVars, nodeVars>>

GetFailure ==
    /\ \E n \in idm.gets \ idm.stored :
        idm' = Holders(idm, handle_get_failure(
                                [Called("handle_get_failure", {n}) EXCEPT !.gets = @ \ {n}],
                                n))
    /\ UNCHANGED <<chainVars, capVars, nodeVars>>

Timeout ==
    /\ idm.ongoing_get # None
    /\ idm' = Holders(idm, check_timeout(Called("check_timeout", {})))
    /\ UNCHANGED <<chainVars, capVars, nodeVars>>

NodeAdded ==
    /\ idm.churn < MaxNodeChurn
    /\ \E n \in Nodes \ idm.connected :
        idm' = Holders(idm, [handle_node_added(Called("handle_node_added", {n}), n)
                                EXCEPT !.churn = @ + 1])
    /\ UNCHANGED <<chainVars, capVars, nodeVars>>

NodeLost ==
    /\ idm.churn < MaxNodeChurn
    /\ \E n \in idm.connected :
        idm' = Holders(idm, [handle_node_lost(Called("handle_node_lost", {n}), n)
                                EXCEPT !.churn = @ + 1])
    /\ UNCHANGED <<chainVars, capVars, nodeVars>>

IdmNext ==
    \/ Put
    \/ PutSuccess
    \/ PutFailure
    \/ Get
    \/ GetSuccess
    \/ GetFailure
    \/ Timeout
    \/ NodeAdded
    \/ NodeLost

Init == ChainInit /\ CapIdle /\ IdmIdle /\ NodeIdle

Spec == Init /\ [][ChainNext]_vars

CapSpecInit == CapInit /\ ChainIdle /\ IdmIdle /\ NodeIdle

CapSpec == CapSpecInit /\ [][CapNext]_vars

SeqCapSpecInit == CapInit /\ ChainIdle /\ IdmIdle /\ NodeIdle

SeqCapSpec == SeqCapSpecInit /\ [][SeqCapNext]_vars

IdmSpecInit == IdmInit /\ ChainIdle /\ CapIdle /\ NodeIdle

IdmSpec == IdmSpecInit /\ [][IdmNext]_vars

SectionsSpecInit == SectionsInit /\ CapIdle /\ IdmIdle /\ NodeIdle

SectionsSpec == SectionsSpecInit /\ [][SectionsNext]_vars


(***************************************************************************)
(* Properties of the chain.  `last` holds the chain before the last call   *)
(* of poll_accumulated (pre) and what the call returned.                   *)
(***************************************************************************)
PolledOk == last.op = "poll_accumulated" /\ last.ret.kind # "Panic"

RECURSIVE Reverse(_)
Reverse(q) == IF q = <<>> THEN <<>> ELSE Append(Reverse(Tail(q)), Head(q))

\* A pending membership change requires a new EldersInfo.
NeedsNewInfo(c) ==
    /\ c.members_changed
    /\ can_poll_churn(c)
    /\ should_split(c) \/ our_expected_elders(c) # c.our_info.members

\* The elders of the EldersInfo that preceded our current one.
PreviousElders(c) ==
    IF Len(c.our_history) < 2 THEN {}
    ELSE c.our_history[Len(c.our_history) - 1].key.participants

Queued(c) == {c.relocate_queue[i].pub_id : i \in 1 .. Len(c.relocate_queue)}

\* The nodes scheduled for relocation that the last commit removed from our elders.
DemotedQueued(c) ==
    {x \in Queued(c) : IsMember(c, x) /\ x \notin c.our_info.members
                       /\ x \in PreviousElders(c)}

\* The member whose entry poll_relocation examines: the rearmost entry of a member.
BackMember(c) ==
    LET q == DropNonMembers(c, c.relocate_queue)
    IN  IF q = <<>> THEN None ELSE Some(q[Len(q)].pub_id)

\* C1: while churn_in_progress is true, poll_accumulated returns no churn event, no
\* RelocateDetails and no new PromoteDemoteElders proposal, and a churn event it takes
\* from the accumulator goes to the front of the backlog; the flag is set only by a
\* poll that returns an elder proposal and cleared only by a poll that commits a
\* SectionInfo.
C1_NoChurnWhileChurnInProgress ==
    last.op = "poll_accumulated" =>
        /\ last.pre.churn_in_progress =>
            /\ last.ret.kind \notin {"RelocateDetails", "PromoteDemoteElders"}
            /\ (last.ret.kind = "AccumulatedEvent" => ~IsChurnEvent(last.ret.event))
            /\ (PolledOk /\ last.polled # None /\ IsChurnEvent(last.polled[1])) =>
                    /\ last.backlogged
                    /\ chain.churn_event_backlog =
                           <<last.polled[1]>> \o last.pre.churn_event_backlog
        /\ (~last.pre.churn_in_progress /\ chain.churn_in_progress) =>
                last.ret.kind = "PromoteDemoteElders"
        /\ (last.pre.churn_in_progress /\ ~chain.churn_in_progress) =>
                /\ last.polled # None
                /\ last.polled[1].type = "SectionInfo"
                /\ chain.our_info # last.pre.our_info

\* A churn event accumulated during a churn and was deferred.
C1_Witness ==
    /\ last.op = "poll_accumulated"
    /\ last.pre.churn_in_progress
    /\ last.backlogged
    /\ chain.churn_in_progress

\* C3 (as stated): a SectionInfo that is not a direct successor of our EldersInfo is
\* never polled from the accumulator, and a commit raises our version by exactly one.
C3_OnlySuccessorsCommitted ==
    PolledOk =>
        /\ (last.polled # None /\ last.polled[1].type = "SectionInfo") =>
                IsSuccessorOf(last.polled[1].info, last.pre.our_info)
        /\ chain.our_info # last.pre.our_info =>
                chain.our_info.version = last.pre.our_info.version + 1

\* C4 (as stated): the details of an elder are never returned and stay queued, and a
\* poll with an empty backlog and can_poll_churn returns the details of a queued node
\* that the last commit removed from our elders.
C4_DemotedRelocatedOnNextPoll ==
    PolledOk =>
        /\ last.ret.kind = "RelocateDetails" =>
                last.ret.details.pub_id \notin last.pre.our_info.members
        /\ \A x \in Queued(last.pre) \cap last.pre.our_info.members :
                IsMember(last.pre, x) => x \in Queued(chain)
        /\ (can_poll_churn(last.pre) /\ last.pre.churn_event_backlog = <<>>) =>
                \A x \in DemotedQueued(last.pre) :
                    last.ret = RetRelocate([pub_id |-> x])

\* C4 (amended): as C4, for a poll in which no pending membership change requires a
\* new EldersInfo and for the node whose entry is the rearmost member entry of the
\* relocation queue.
C4_DemotedRelocatedWhenDue ==
    PolledOk =>
        /\ last.ret.kind = "RelocateDetails" =>
                last.ret.details.pub_id \notin last.pre.our_info.members
        /\ \A x \in Queued(last.pre) \cap last.pre.our_info.members :
                IsMember(last.pre, x) => x \in Queued(chain)
        /\ (/\ can_poll_churn(last.pre)
            /\ last.pre.churn_event_backlog = <<>>
            /\ ~NeedsNewInfo(last.pre)) =>
                \A x \in DemotedQueued(last.pre) :
                    BackMember(last.pre) = Some(x) =>
                        last.ret = RetRelocate([pub_id |-> x])

\* The details of a node that the last commit demoted are returned.
C4_Witness ==
    /\ PolledOk
    /\ last.ret.kind = "RelocateDetails"
    /\ last.ret.details.pub_id \in DemotedQueued(last.pre)

\* C5: when the SectionInfo of the second split child is polled, whichever child it
\* is, and the commit succeeds, our_info is the child whose prefix matches our name,
\* the other child is a neighbour and the split cache is empty.
C5_SplitChildrenEitherOrder ==
    (/\ PolledOk
     /\ last.polled # None
     /\ last.polled[1].type = "SectionInfo"
     /\ IsExtensionOf(last.polled[1].info.prefix, our_prefix(last.pre))
     /\ last.pre.split_cache # None
     /\ last.ret.kind # "Err") =>
        LET second == last.polled[1].info
            first == last.pre.split_cache[1].elders_info
            ours == IF Matches(first.prefix, our_id) THEN first ELSE second
            sibling == IF Matches(first.prefix, our_id) THEN second ELSE first
        IN  /\ chain.our_info = ours
            /\ Matches(our_prefix(chain), our_id)
            /\ sibling \in chain.neighbours
            /\ chain.split_cache = None
            /\ last.ret = RetEvent(last.polled[1])

\* Our own child arrived first and was cached; the sibling's SectionInfo completed
\* the split.
C5_Witness ==
    /\ PolledOk
    /\ last.polled # None
    /\ last.polled[1].type = "SectionInfo"
    /\ last.pre.split_cache # None
    /\ Matches(last.pre.split_cache[1].elders_info.prefix, our_id)
    /\ ~Matches(last.polled[1].info.prefix, our_id)
    /\ last.ret.kind = "AccumulatedEvent"
    /\ Len(our_prefix(chain)) = Len(our_prefix(last.pre)) + 1

\* The sibling arrived first and was cached; our own child completed the split.
C5_WitnessSiblingFirst ==
    /\ PolledOk
    /\ last.polled # None
    /\ last.polled[1].type = "SectionInfo"
    /\ last.pre.split_cache # None
    /\ ~Matches(last.pre.split_cache[1].elders_info.prefix, our_id)
    /\ Matches(last.polled[1].info.prefix, our_id)
    /\ last.ret.kind = "AccumulatedEvent"
    /\ Len(our_prefix(chain)) = Len(our_prefix(last.pre)) + 1

\* C8: the churn events deferred and not yet returned are exactly the backlog, oldest
\* at its back; a poll returns a backlog event only when handled_genesis_event holds
\* and churn_in_progress does not, it returns the oldest one and removes that one
\* event.
C8_BacklogFifo ==
    /\ deferred = Reverse(chain.churn_event_backlog)
    /\ (PolledOk /\ last.step = "backlog") =>
        /\ last.due = Some(last.ret.event)
        /\ last.pre.handled_genesis_event
        /\ ~last.pre.churn_in_progress
        /\ Len(chain.churn_event_backlog) = Len(last.pre.churn_event_backlog) - 1
    /\ (PolledOk /\ last.step # "backlog") =>
        Len(chain.churn_event_backlog) >= Len(last.pre.churn_event_backlog)

\* Two events were deferred and the older one is returned.
C8_Witness ==
    /\ PolledOk
    /\ last.step = "backlog"
    /\ Len(last.pre.churn_event_backlog) = 2
    /\ last.pre.churn_event_backlog[1] # last.pre.churn_event_backlog[2]

\* C9 (as stated): an event that a poll removes from the accumulator is returned by
\* that poll or, when it is a churn event and can_poll_churn is false, put on the
\* backlog.
C9_PolledEventNotDropped ==
    (PolledOk /\ last.polled # None) =>
        \/ last.ret = RetEvent(last.polled[1])
        \/ /\ IsChurnEvent(last.polled[1])
           /\ ~can_poll_churn(last.pre)
           /\ chain.churn_event_backlog =
                  <<last.polled[1]>> \o last.pre.churn_event_backlog

\* C9 (amended): as C9, except that a ParsecPrune polled while churn_in_progress is
\* dropped, the SectionInfo of the first split child is kept in the split cache, and
\* a SectionInfo whose commit fails is lost with the error the poll returns.
C9_PolledEventAccountedFor ==
    (PolledOk /\ last.polled # None) =>
        \/ last.ret = RetEvent(last.polled[1])
        \/ /\ IsChurnEvent(last.polled[1])
           /\ ~can_poll_churn(last.pre)
           /\ last.ret = RetNone
           /\ chain.churn_event_backlog =
                  <<last.polled[1]>> \o last.pre.churn_event_backlog
        \/ /\ last.polled[1].type = "ParsecPrune"
           /\ last.pre.churn_in_progress
           /\ last.ret = RetNone
        \/ /\ last.polled[1].type = "SectionInfo"
           /\ IsExtensionOf(last.polled[1].info.prefix, our_prefix(last.pre))
           /\ last.pre.split_cache = None
           /\ chain.split_cache # None
           /\ chain.split_cache[1].elders_info = last.polled[1].info
           /\ last.ret = RetNone
        \/ /\ last.polled[1].type = "SectionInfo"
           /\ last.ret.kind = "Err"

\* A ParsecPrune accumulated during a churn and the poll returned nothing.
C9_Witness ==
    /\ PolledOk
    /\ last.polled # None
    /\ last.polled[1].type = "ParsecPrune"
    /\ last.pre.churn_in_progress
    /\ last.ret = RetNone

\* C10: a poll returns a backlog event whenever the backlog can be drained; it
\* returns an elder proposal only when the backlog yields nothing, a RelocateDetails
\* only when no pending membership change requires a new EldersInfo, and it touches
\* the accumulator only when backlog, promotion and relocation all yield nothing.
C10_PollPriority ==
    PolledOk =>
        LET pre == last.pre
            drains == can_poll_churn(pre) /\ pre.churn_event_backlog # <<>>
            relocates == /\ can_poll_churn(pre)
                         /\ pre.churn_event_backlog = <<>>
                         /\ BackMember(pre) # None
                         /\ BackMember(pre)[1] \notin pre.our_info.members
        IN  /\ drains <=> last.step = "backlog"
            /\ (~drains /\ NeedsNewInfo(pre)) <=> last.ret.kind = "PromoteDemoteElders"
            /\ (~drains /\ ~NeedsNewInfo(pre) /\ relocates)
                   <=> last.ret.kind = "RelocateDetails"
            /\ (last.step = "accumulator")
                   <=> (~drains /\ ~NeedsNewInfo(pre) /\ ~relocates)
            /\ last.polled # None => last.step = "accumulator"

\* A poll returned an elder proposal although a relocation was ready to be returned.
C10_Witness ==
    /\ PolledOk
    /\ last.ret.kind = "PromoteDemoteElders"
    /\ BackMember(last.pre) # None
    /\ BackMember(last.pre)[1] \notin last.pre.our_info.members

(***************************************************************************)
(* Properties of the capacity machine.                                     *)
(***************************************************************************)
AllCallsCompleted == \A t \in Tasks : task[t].pc = "done"

WrittenLevels == {task[t].new_level : t \in Tasks}

\* C2 (as stated): once all concurrent set_adult_level calls on the adult have
\* completed, its stored level is the maximum of its initial level and the levels
\* written.
C2_FinalLevelIsMax ==
    AllCallsCompleted =>
        adult_levels = Some(Max(WrittenLevels \cup
                                {initial_level[i] : i \in 1 .. Len(initial_level)}))

\* The call of task t returns in this step.
Returns(t) == task[t].pc # "done" /\ task'[t].pc = "done"

\* C21: a call of set_adult_level that overlaps no other call replaces the stored level
\* of the adult exactly when the new level is strictly greater than the stored one (or
\* none is stored), leaves an equal or higher stored level as it is, and returns true
\* exactly when the stored level changed; no other step changes the stored level.
C21_SetAdultLevelMonotonic ==
    [][(\A t \in Tasks :
            Returns(t) =>
                IF adult_levels = None \/ task[t].new_level > adult_levels[1]
                THEN (adult_levels' = Some(task[t].new_level) /\ task'[t].changed)
                ELSE (adult_levels' = adult_levels /\ ~task'[t].changed))
       /\ ((\A u \in Tasks : ~Returns(u)) => adult_levels' = adult_levels)]_vars

\* Three calls one after the other, with levels 1, then 3, then 2 (3, 7 and 5 at the
\* scale of the model): the first two changed the stored level, the third did not,
\* and the stored level is 3.
C21_Witness ==
    /\ initial_level = None
    /\ AllCallsCompleted
    /\ task[1].new_level = 1 /\ task[1].changed
    /\ task[2].new_level = 3 /\ task[2].changed
    /\ task[3].new_level = 2 /\ ~task[3].changed
    /\ adult_levels = Some(3)

(***************************************************************************)
(* Properties of the data manager.                                         *)
(***************************************************************************)
\* No request is in flight and no get is ongoing: without further churn or client
\* requests the account does not change any more.
Quiescent == idm.puts = {} /\ idm.gets = {} /\ idm.ongoing_get = None

GoodHolders == {h \in idm.account[1] : h.state = "Good"}

\* C6 (as stated): once the holders have answered every request sent to them, and at
\* least REPLICANTS adults of the close group can hold the chunk, the account has at
\* least REPLICANTS holders in state Good.
C6_ReplicaFloor ==
    (/\ idm.account # None
     /\ Quiescent
     /\ Cardinality(close_group(idm) \ idm.full) >= REPLICANTS) =>
        Cardinality(GoodHolders) >= REPLICANTS

\* C7 (as stated): in every reachable state at most REPLICANTS nodes are holders of
\* the account in state Pending or Good.  (An account with more than REPLICANTS such
\* nodes also has more than REPLICANTS such holder entries.)
C7_AtMostReplicantsActive ==
    idm.account # None => Cardinality(HolderNames(Active(idm.account[1]))) <= REPLICANTS

(***************************************************************************)
(* Properties of the accumulator.                                          *)
(***************************************************************************)
\* The call of poll_accumulated that just returned got as far as the accumulator.
AccumulatorPolled == PolledOk /\ last.step = "accumulator"

HasQuorum(c, i) == QuorumOf(c.our_info, Voters(c.accumulator[i].proofs))

\* The incomplete event i of c is one that the chain takes out of the accumulator.
Accepted(c, i) ==
    LET e == c.accumulator[i].event
    IN  CASE e.type = "SendAckMessage" ->
                c.our_info.members \subseteq Voters(c.accumulator[i].proofs)
          [] e.type = "NeighbourInfo" ->
                /\ HasQuorum(c, i)
                /\ \A k \in {c.our_info} \cup c.neighbours :
                      IsCompatible(k.prefix, e.info.prefix) =>
                          k.version = e.info.version - 1
          [] e.type = "StartDkg" -> FALSE
          [] OTHER -> HasQuorum(c, i)

\* C11 (as stated): a poll of the accumulator removes an incomplete event if and only
\* if its proofs are a quorum of the elders that are current at that poll.
C11_PolledIffQuorum ==
    AccumulatorPolled =>
        \A i \in 1 .. Len(last.pre.accumulator) :
            last.polled = Some(last.pre.accumulator[i].event) <=> HasQuorum(last.pre, i)

\* C11 (amended): a poll of the accumulator removes at most one incomplete event, the
\* first one that the chain accepts as a transition, and its proofs are a quorum of the
\* elders that are current at that poll; every other incomplete event, and every event
\* without such a quorum, stays in the accumulator with its proofs.
C11_PolledFirstAcceptedWithQuorum ==
    AccumulatorPolled =>
        LET acc == last.pre.accumulator
        IN  /\ last.polled = None =>
                /\ chain.accumulator = acc
                /\ \A i \in 1 .. Len(acc) : ~Accepted(last.pre, i)
            /\ last.polled # None =>
                \E i \in 1 .. Len(acc) :
                    /\ last.polled = Some(acc[i].event)
                    /\ HasQuorum(last.pre, i)
                    /\ Accepted(last.pre, i)
                    /\ \A j \in 1 .. i - 1 : ~Accepted(last.pre, j)
                    /\ chain.accumulator = RemoveAt(acc, i)

\* An event is polled while another one, which has a proof of a node that is no longer
\* an elder, stays behind without a quorum.
C11_Witness ==
    /\ AccumulatorPolled
    /\ last.polled # None
    /\ \E i \in 1 .. Len(chain.accumulator) :
        /\ ~(Voters(chain.accumulator[i].proofs) \subseteq last.pre.our_info.members)
        /\ ~QuorumOf(last.pre.our_info, Voters(chain.accumulator[i].proofs))

\* The incomplete events of c of type t, as indices of the accumulator.
Incomplete(c, t) == {i \in 1 .. Len(c.accumulator) : c.accumulator[i].event.type = t}

Stays(i) ==
    \E j \in 1 .. Len(chain.accumulator) : chain.accumulator[j] = last.pre.accumulator[i]

\* C12: poll_accumulated never returns an AccumulatedEvent whose content is StartDkg,
\* whatever votes handle_opaque_event was given.
C12_StartDkgNeverReturned ==
    ~(/\ last.op = "poll_accumulated"
      /\ last.ret.kind = "AccumulatedEvent"
      /\ last.ret.event.type = "StartDkg")

\* Every elder voted for StartDkg, and the poll that examined it panicked.
C12_Witness ==
    /\ last.op = "poll_accumulated"
    /\ last.ret.kind = "Panic"
    /\ last.polled = None
    /\ \E i \in Incomplete(last.pre, "StartDkg") :
           last.pre.our_info.members \subseteq Voters(last.pre.accumulator[i].proofs)

\* The known sections whose version is what NeighbourInfo(info) has to follow.
Sequential(c, info) ==
    \A k \in {c.our_info} \cup c.neighbours :
        IsCompatible(k.prefix, info.prefix) => k.version = info.version - 1

\* C13: a NeighbourInfo(info) is polled only if its proofs are a quorum of our current
\* elders and every known section with a prefix compatible with that of info has
\* version info.version - 1; otherwise it stays in the accumulator.
C13_NeighbourInfoSequential ==
    AccumulatorPolled =>
        \A i \in Incomplete(last.pre, "NeighbourInfo") :
            IF HasQuorum(last.pre, i) /\ Sequential(last.pre, last.pre.accumulator[i].event.info)
            THEN TRUE
            ELSE last.polled # Some(last.pre.accumulator[i].event) /\ Stays(i)

\* A NeighbourInfo that follows a known neighbour is polled, and the neighbour is
\* replaced by it.
C13_Witness ==
    /\ AccumulatorPolled
    /\ last.polled # None
    /\ last.polled[1].type = "NeighbourInfo"
    /\ \E k \in last.pre.neighbours :
        /\ IsCompatible(k.prefix, last.polled[1].info.prefix)
        /\ k.version = last.polled[1].info.version - 1
    /\ last.polled[1].info \in chain.neighbours

\* C14: a SendAckMessage is polled only when every current elder has voted for it;
\* with a quorum that misses an elder it stays in the accumulator.
C14_SendAckNeedsTotalConsensus ==
    AccumulatorPolled =>
        \A i \in Incomplete(last.pre, "SendAckMessage") :
            IF last.pre.our_info.members \subseteq Voters(last.pre.accumulator[i].proofs)
            THEN TRUE
            ELSE last.polled # Some(last.pre.accumulator[i].event) /\ Stays(i)

\* All four elders voted for a SendAckMessage, and it is polled.
C14_Witness ==
    /\ AccumulatorPolled
    /\ Cardinality(last.pre.our_info.members) = 4
    /\ last.polled = Some(PlainEvent("SendAckMessage"))

\* The poll leaves a SendAckMessage with three of the four votes where it is.
C14_WitnessQuorumStays ==
    /\ AccumulatorPolled
    /\ Cardinality(last.pre.our_info.members) = 4
    /\ \E i \in Incomplete(last.pre, "SendAckMessage") :
        /\ HasQuorum(last.pre, i)
        /\ Stays(i)
        /\ i = 1

(***************************************************************************)
(* Properties of elder promotion and demotion, and of splits.              *)
(***************************************************************************)
\* The call of poll_accumulated that just returned evaluated
\* promote_and_demote_elders, on the chain it started with.
PromotionEvaluated == PolledOk /\ last.step # "backlog"

\* The mature members of c that the child prefix of bit b would contain.
MatureInChild(c, b) == {m \in Mature(c) : Matches(Pushed(our_prefix(c), b), m)}

BothChildrenSafe(c) ==
    \A b \in {0, 1} : Cardinality(MatureInChild(c, b)) >= safe_section_size

\* C15: promote_and_demote_elders returns two EldersInfo, one for each child prefix of
\* our_prefix, exactly when members_changed and can_poll_churn hold and each child
\* prefix would contain at least safe_section_size mature members; in every other case
\* it returns at most one EldersInfo.
C15_SplitExactlyWhenBothChildrenSafe ==
    PromotionEvaluated =>
        IF last.pre.members_changed /\ can_poll_churn(last.pre) /\ BothChildrenSafe(last.pre)
        THEN /\ last.ret.kind = "PromoteDemoteElders"
             /\ Len(last.ret.infos) = 2
             /\ {last.ret.infos[1].prefix, last.ret.infos[2].prefix}
                    = {Pushed(our_prefix(last.pre), b) : b \in {0, 1}}
        ELSE last.ret.kind = "PromoteDemoteElders" => Len(last.ret.infos) = 1

\* The members changed, both child prefixes are safe, and a split is proposed.
C15_Witness ==
    /\ PromotionEvaluated
    /\ last.pre.members_changed /\ can_poll_churn(last.pre)
    /\ BothChildrenSafe(last.pre)
    /\ last.ret.kind = "PromoteDemoteElders"
    /\ Len(last.ret.infos) = 2

\* The members changed and one child prefix has too few mature members, though it has
\* safe_section_size members.
C15_WitnessNoSplit ==
    /\ PromotionEvaluated
    /\ last.pre.members_changed /\ can_poll_churn(last.pre)
    /\ ~BothChildrenSafe(last.pre)
    /\ \A b \in {0, 1} :
           Cardinality({m \in Joined(last.pre) : Matches(Pushed(our_prefix(last.pre), b), m)})
               >= safe_section_size

\* The section of the empty prefix, its members changed and churn can be polled, has
\* n mature members in each of the halves of the first bit.
EvenSection(c, n) ==
    /\ our_prefix(c) = <<>>
    /\ c.members_changed /\ can_poll_churn(c)
    /\ \A b \in {0, 1} : Cardinality(MatureInChild(c, b)) = n

ProposesSplit ==
    /\ last.ret.kind = "PromoteDemoteElders"
    /\ Len(last.ret.infos) = 2
    /\ {last.ret.infos[1].prefix, last.ret.infos[2].prefix} = {<<0>>, <<1>>}

\* The second child of the split of the empty prefix has just been committed.
SplitOfEmptyPrefixCommitted ==
    /\ PolledOk
    /\ last.polled # None
    /\ last.polled[1].type = "SectionInfo"
    /\ our_prefix(last.pre) = <<>>
    /\ last.pre.split_cache # None
    /\ last.ret.kind = "AccumulatedEvent"

\* C16 (as stated, at the scale of the model): a section at the empty prefix with
\* safe_section_size mature members in all (8 for SAFE_SECTION_SIZE = 8), half of them
\* on each side of the first bit, yields two EldersInfo with prefixes 0 and 1.
C16_SplitAtSafeSizeInAll ==
    (/\ PromotionEvaluated
     /\ our_prefix(last.pre) = <<>>
     /\ last.pre.members_changed /\ can_poll_churn(last.pre)
     /\ Cardinality(Mature(last.pre)) = safe_section_size
     /\ Cardinality(MatureInChild(last.pre, 0)) = Cardinality(MatureInChild(last.pre, 1)))
        => ProposesSplit

\* C16 (amended): a section at the empty prefix with safe_section_size mature members
\* on each side of the first bit (8 and 8 for SAFE_SECTION_SIZE = 8) yields two
\* EldersInfo with prefixes 0 and 1; once both are committed our_info is the one that
\* matches our name and the sibling is a neighbour.
C16_SplitAtSafeSizeEach ==
    /\ (PromotionEvaluated /\ EvenSection(last.pre, safe_section_size)) => ProposesSplit
    /\ SplitOfEmptyPrefixCommitted =>
        /\ our_prefix(chain) = <<Bit(our_id, 0)>>
        /\ Matches(our_prefix(chain), our_id)
        /\ \E i \in chain.neighbours : i.prefix = <<1 - Bit(our_id, 0)>>

\* The split of such a section is proposed.
C16_Witness ==
    /\ PromotionEvaluated
    /\ EvenSection(last.pre, safe_section_size)
    /\ ProposesSplit

\* Both children of the split are committed.
C16_WitnessCommitted ==
    /\ SplitOfEmptyPrefixCommitted
    /\ our_prefix(chain) = <<0>>
    /\ \E i \in chain.neighbours : i.prefix = <<1>>

\* C17 (as stated): when our elders are at least elder_size and the elders expected by
\* promote_and_demote_elders are fewer than elder_size, the call panics instead of
\* returning the smaller EldersInfo.
C17_PanicsWhenEldersDropBelowElderSize ==
    (/\ last.op = "poll_accumulated"
     /\ last.step # "backlog"
     /\ last.pre.members_changed /\ can_poll_churn(last.pre)
     /\ ~BothChildrenSafe(last.pre)
     /\ Cardinality(last.pre.our_info.members) >= elder_size
     /\ Cardinality(our_expected_elders(last.pre)) < elder_size)
        => last.ret.kind = "Panic"

(***************************************************************************)
(* Properties of the commit of our EldersInfo.                             *)
(***************************************************************************)
SectionInfoPolled ==
    PolledOk /\ last.polled # None /\ last.polled[1].type = "SectionInfo"

\* The poll committed an EldersInfo of our section: our history has one more block.
OurInfoCommitted ==
    /\ SectionInfoPolled
    /\ Len(chain.our_history) = Len(last.pre.our_history) + 1

\* The EldersInfo that the poll tried to commit as ours: the polled one, or the split
\* child that was waiting in the cache when the polled one is the sibling.
AttemptedInfo ==
    IF Matches(last.polled[1].info.prefix, our_id) \/ last.pre.split_cache = None
    THEN last.polled[1].info
    ELSE last.pre.split_cache[1].elders_info

\* C18: when our EldersInfo commits, our section key becomes the DKG result stored
\* under the name of its first member; when no DKG result is stored under that name
\* the commit fails with InvalidElderDkgResult, and our_info, our history, our section
\* key and churn_in_progress are unchanged.
C18_KeyOfFirstElderOrInvalidDkgResult ==
    /\ OurInfoCommitted =>
        /\ chain.our_info = AttemptedInfo
        /\ last.pre.new_section_bls_keys[FirstName(chain.our_info.members)]
               = Some(chain.our_section_bls_keys)
    /\ (SectionInfoPolled /\ last.ret = RetErr("InvalidElderDkgResult")) =>
        /\ last.pre.new_section_bls_keys[FirstName(AttemptedInfo.members)] = None
        /\ chain.our_info = last.pre.our_info
        /\ chain.our_history = last.pre.our_history
        /\ chain.our_section_bls_keys = last.pre.our_section_bls_keys
        /\ chain.churn_in_progress = last.pre.churn_in_progress
    /\ (SectionInfoPolled /\ last.ret.kind # "Err"
        /\ last.pre.new_section_bls_keys[FirstName(AttemptedInfo.members)] = None) =>
        ~OurInfoCommitted

\* Our EldersInfo commits with the DKG result of its first member, while a DKG result
\* is also stored under another name.
C18_Witness ==
    /\ OurInfoCommitted
    /\ \E n \in Names \ {FirstName(chain.our_info.members)} :
           last.pre.new_section_bls_keys[n] # None
    /\ chain.our_section_bls_keys # last.pre.our_section_bls_keys

\* The commit fails for want of the DKG result, during a churn, while a DKG result
\* is stored under another name.
C18_WitnessInvalidDkgResult ==
    /\ SectionInfoPolled
    /\ last.ret = RetErr("InvalidElderDkgResult")
    /\ last.pre.churn_in_progress
    /\ \E n \in Names : last.pre.new_section_bls_keys[n] # None

\* SectionProofChain::validate: every block after the first is signed by the key of
\* the block before it.
validate(history) ==
    \A i \in 2 .. Len(history) : history[i].signed_by = history[i - 1].key

KnownSections == {chain.our_info} \cup chain.neighbours

C20_WitnessMerged ==
    /\ AccumulatorPolled
    /\ last.polled # None
    /\ last.polled[1].type = "NeighbourInfo"
    /\ Cardinality(last.pre.neighbours) = 2
    /\ chain.neighbours = {last.polled[1].info}


(***************************************************************************)
(* Properties of the data manager.  A step of handler h is a step that     *)
(* leaves h in idm.op; idm.arg, idm.ret and idm.out are its argument, its  *)
(* result and the messages it sent.                                        *)
(***************************************************************************)
\* The step is a call of the handler.
Handles(handler) == idm' # idm /\ idm'.op = handler

\* The nodes that the messages of the last call with this kind went to.
Receivers(m, kind) == {x.dst : x \in {y \in BagToSet(m.out) : y.kind = kind}}

\* The nodes that are recorded in the account in any state.
Recorded(m) == IF m.account = None THEN {} ELSE HolderNames(m.account[1])

\* The first REPLICANTS nodes of the close group, in the order of closeness, that are
\* not in the full set.
FirstNotFull(m, full_pmid_nodes) ==
    {n \in close_group(m) \ full_pmid_nodes :
        Cardinality({x \in close_group(m) \ full_pmid_nodes : x < n}) < REPLICANTS}

\* C22: handle_put for a chunk without an account creates the account with exactly the
\* first REPLICANTS nodes of the close group that are not in the full set, all Pending,
\* and sends exactly one Put to each of them and to no other node; the holders are a
\* function of the close group and the full set.
C22_PutChoosesClosestNotFull ==
    [][(Handles("handle_put") /\ idm.account = None) =>
          /\ idm'.account =
                 Some({DataHolder(n, "Pending") : n \in FirstNotFull(idm, idm'.arg)})
          /\ Receivers(idm', "Put") = FirstNotFull(idm, idm'.arg)
          /\ \A n \in FirstNotFull(idm, idm'.arg) : Sent(idm', Msg("Put", n)) = 1]_vars

\* A put with node 1 full and known to be full: the holders are nodes 2 and 3.
C22_Witness ==
    /\ idm.op = "handle_put"
    /\ idm.connected = 1 .. GROUP_SIZE
    /\ idm.arg = {1}
    /\ idm.account = Some({DataHolder(2, "Pending"), DataHolder(3, "Pending")})
    /\ Sent(idm, Msg("Put", 2)) = 1
    /\ Sent(idm, Msg("Put", 3)) = 1
    /\ Sent(idm, Msg("Put", 1)) = 0

\* handle_put_success for a Pending holder n makes n Good and succeeds.
Promotes(n) ==
    (/\ Handles("handle_put_success")
     /\ idm'.arg = {n}
     /\ idm.account # None
     /\ DataHolder(n, "Pending") \in idm.account[1]) =>
        /\ idm'.ret = "Ok"
        /\ idm'.account = Some((idm.account[1] \ {DataHolder(n, "Pending")})
                               \cup {DataHolder(n, "Good")})

\* handle_put_success has just succeeded for holder n.
Acknowledged(n) == Handles("handle_put_success") /\ idm'.arg = {n} /\ idm'.ret = "Ok"

\* The manager after a second handle_put_success for holder n.
PutSuccessAgain(n) == handle_put_success([idm' EXCEPT !.out = EmptyBag], n)

\* C23 as stated: handle_put_success promotes the named holder from Pending to Good, and
\* a second application for the same holder succeeds and leaves the account as it was
\* after the first.
C23_PutSuccessIdempotent ==
    [][\A n \in Nodes :
          /\ Promotes(n)
          /\ Acknowledged(n) => (/\ PutSuccessAgain(n).ret = "Ok"
                             /\ PutSuccessAgain(n).account = idm'.account)]_vars

\* C23 amended: handle_put_success promotes the named holder from Pending to Good; a
\* second application for the same holder leaves the account as it was after the first
\* and fails with InvalidResponse.
C23_SecondPutSuccessIsInvalidResponse ==
    [][\A n \in Nodes :
          /\ Promotes(n)
          /\ Acknowledged(n) => (/\ PutSuccessAgain(n).ret = "InvalidResponse"
                             /\ PutSuccessAgain(n).account = idm'.account)]_vars

\* Holder 1 acknowledged its Put twice: it is Good and the second call was refused.
C23_Witness ==
    /\ idm.op = "handle_put_success"
    /\ idm.arg = {1}
    /\ idm.ret = "InvalidResponse"
    /\ idm.account = Some({DataHolder(1, "Good"), DataHolder(2, "Pending")})
    /\ idm.ongoing_get = None /\ idm.gets = {} /\ idm.churn = 0

\* The account after the Pending holder n was marked Failed.
MarkedFailed(n) ==
    (idm.account[1] \ {DataHolder(n, "Pending")}) \cup {DataHolder(n, "Failed")}

\* The close-group nodes that the account does not record in any state.
Untried == close_group(idm) \ Recorded(idm)

\* C24: handle_put_failure for a Pending holder marks it Failed and adds as Pending the
\* closest close-group node that the account does not record in any state, with exactly
\* one Put to it and to no other node; without such a node nothing is added or sent.
C24_PutFailureReplacesWithClosestUntried ==
    [][\A n \in Nodes :
          (/\ Handles("handle_put_failure")
           /\ idm'.arg = {n}
           /\ idm.account # None
           /\ DataHolder(n, "Pending") \in idm.account[1]) =>
              IF Untried = {}
              THEN /\ idm'.account = Some(MarkedFailed(n))
                   /\ Receivers(idm', "Put") = {}
              ELSE \E r \in Untried :
                      /\ \A x \in Untried : r <= x
                      /\ r \notin Recorded(idm)
                      /\ idm'.account = Some(MarkedFailed(n) \cup {DataHolder(r, "Pending")})
                      /\ Receivers(idm', "Put") = {r}
                      /\ Sent(idm', Msg("Put", r)) = 1]_vars

\* Holders 1 and 2 of the close group 1, 2, 3: the Put to 1 failed, 3 replaced it, and
\* 2 and 3 acknowledged.
C24_Witness ==
    /\ idm.connected = 1 .. GROUP_SIZE
    /\ idm.account = Some({DataHolder(1, "Failed"), DataHolder(2, "Good"),
                           DataHolder(3, "Good")})
    /\ idm.op = "handle_put_success"
    /\ idm.ongoing_get = None /\ idm.gets = {} /\ idm.churn = 0

\* The Put to holder 1 has just failed and node 3 is the Pending replacement.
C24_WitnessReplaced ==
    /\ idm.op = "handle_put_failure"
    /\ idm.arg = {1}
    /\ idm.account = Some({DataHolder(1, "Failed"), DataHolder(2, "Pending"),
                           DataHolder(3, "Pending")})
    /\ Sent(idm, Msg("Put", 3)) = 1

\* The number of entries of node n in the account that are Good or Pending.
ActiveEntries(m, n) == Cardinality({h \in Active(m.account[1]) : h.name = n})

C26_GetWithoutAccountFails ==
    [][(Handles("handle_get") /\ idm.account = None) =>
          /\ Sent(idm', Reply("GetFailure")) = 1
          /\ Receivers(idm', "Get") = {}
          /\ Receivers(idm', "GetSuccess") = {}
          /\ idm'.account = None
          /\ idm'.gets = idm.gets]_vars

\* A get before any put: one GetFailure, and still no account.
C26_Witness ==
    /\ idm.op = "handle_get"
    /\ idm.account = None
    /\ idm.out = SetToBag({Reply("GetFailure")})

\* The holders queried by the ongoing get that have not answered it before this step.
Waiting(m) ==
    HolderNames(m.ongoing_get[1].data_holders)
        \ HolderNames({h \in m.ongoing_get[1].data_holders : h.state # "Pending"})

\* The holders that answered the ongoing get with the chunk.
GoodResponders(m) == {h \in m.ongoing_get[1].data_holders : h.state = "Good"}

\* C27: handle_get_failure marks the responder Failed in the account; while another
\* queried holder has not answered, the call sends nothing; when the responder is the
\* last one and fewer than REPLICANTS holders are Good, the chunk is Put to new close
\* nodes if a holder is Good, and the requester is sent a GetFailure (NoSuchData) if
\* none is.
C27_GetFailureReplicatesOrFails ==
    [][\A n \in Nodes :
          (/\ Handles("handle_get_failure")
           /\ idm'.arg = {n}
           /\ idm.account # None
           /\ idm.ongoing_get # None) =>
              /\ DataHolder(n, "Failed") \in idm'.account[1]
              /\ IF Waiting(idm) \ {n} # {}
                 THEN idm'.out = EmptyBag
                 ELSE IF GoodResponders(idm) = {}
                      THEN Sent(idm', Reply("GetFailure")) = 1
                      ELSE Cardinality(GoodResponders(idm)) < REPLICANTS =>
                              /\ Receivers(idm', "Put") # {}
                              /\ Receivers(idm', "Put") \subseteq close_group(idm)
                              /\ Receivers(idm', "Put") \cap Recorded(idm) = {}]_vars

\* C28: the requester of one client Get is sent at most one GetSuccess; a success of a
\* holder answers the requester exactly when the request is still pending, removes the
\* pending request, and sends no Put and no Get.
C28_OneGetSuccessPerGet ==
    [][/\ idm'.answered <= 1
       /\ Handles("handle_client_get_success") =>
             /\ Sent(idm', Reply("GetSuccess")) = (IF idm.ongoing_get # None THEN 1 ELSE 0)
             /\ idm'.ongoing_get = None
             /\ Receivers(idm', "Put") = {}
             /\ Receivers(idm', "Get") = {}]_vars

\* The part of C28 about the successes of the holders alone.
HolderSuccessAnswersOnce ==
    [][Handles("handle_client_get_success") =>
          /\ Sent(idm', Reply("GetSuccess")) = (IF idm.ongoing_get # None THEN 1 ELSE 0)
          /\ idm'.ongoing_get = None
          /\ Receivers(idm', "Put") = {}
          /\ Receivers(idm', "Get") = {}]_vars

\* C29: a node that the account records as Failed is not recorded as Pending or Good by
\* any later step: no handler adds a Pending or a Good entry for it.
C29_FailedNeverActiveAgain ==
    [][\A n \in Nodes :
          (/\ idm.account # None
           /\ idm'.account # None
           /\ DataHolder(n, "Failed") \in idm.account[1]) =>
              \A state \in {"Pending", "Good"} :
                  DataHolder(n, state) \in idm'.account[1] =>
                      DataHolder(n, state) \in idm.account[1]]_vars

\* The step is a churn event: a node was added to the routing table or lost.
Churns == Handles("handle_node_added") \/ Handles("handle_node_lost")

\* The holders that the churn event leaves in the account: not the node lost, and not
\* the holders that the node added pushed out of a full close group.
KeptHolders ==
    IF idm'.op = "handle_node_lost"
    THEN {h \in idm.account[1] : h.name \notin idm'.arg}
    ELSE IF idm'.arg \subseteq close_group(idm')
            /\ Cardinality(close_group(idm')) = GROUP_SIZE
         THEN {h \in idm.account[1] : \E c \in close_group(idm') : h.name <= c}
         ELSE idm.account[1]

\* The close-group nodes that are not holders after the churn event.
NewCandidates == close_group(idm') \ HolderNames(KeptHolders)

\* How many of them make the number of active holders REPLICANTS, as far as they go.
Needed ==
    IF Cardinality(Active(KeptHolders)) >= REPLICANTS THEN 0
    ELSE IF Cardinality(NewCandidates) < REPLICANTS - Cardinality(Active(KeptHolders))
    THEN Cardinality(NewCandidates)
    ELSE REPLICANTS - Cardinality(Active(KeptHolders))

\* C30: a churn event drops from the account the holders that left or were pushed out
\* of the close group and, when fewer than REPLICANTS active holders remain, adds
\* close-group nodes that are not holders as Pending, with one Put each, until the
\* active holders are REPLICANTS (or the close group has no other node).
C30_ChurnRestoresReplicants ==
    [][(Churns /\ idm.account # None) =>
          \E added \in SUBSET NewCandidates :
              /\ Cardinality(added) = Needed
              /\ idm'.account =
                     Some(KeptHolders \cup {DataHolder(n, "Pending") : n \in added})
              /\ Receivers(idm', "Put") = added
              /\ \A n \in added : Sent(idm', Msg("Put", n)) = 1]_vars

\* The part of C30 that drops the holders.
ChurnDropsHolders ==
    [][(Churns /\ idm.account # None) =>
          /\ KeptHolders \subseteq idm'.account[1]
          /\ idm'.account[1] \ KeptHolders \subseteq
                 {DataHolder(n, "Pending") : n \in NewCandidates}]_vars

(***************************************************************************)
(* Routing (chain.rs, targets and candidates): the nodes a message for a   *)
(* destination is sent to and the size of its delivery group.  The section *)
(* map holds our info and the infos of the other known sections.           *)
(***************************************************************************)
delivery_group_size(n) == (n + 2) \div 3

XorDistance(a, b) ==
    LET D[i \in 0 .. NameBits] ==
            IF i = NameBits THEN 0
            ELSE (IF Bit(a, i) = Bit(b, i) THEN 0 ELSE 2 ^ (NameBits - 1 - i)) + D[i + 1]
    IN  D[0]

lower_bound(p) ==
    LET V[i \in 0 .. Len(p)] ==
            IF i = 0 THEN 0 ELSE V[i - 1] + p[i] * 2 ^ (NameBits - i)
    IN  V[Len(p)]

\* Prefix::common_prefix: the number of leading bits of p that name has.
PrefixCommonPrefix(p, name) ==
    LET Agree(k) == \A i \in 1 .. k : p[i] = Bit(name, i - 1)
    IN  CHOOSE k \in 0 .. Len(p) : Agree(k) /\ (k < Len(p) => ~Agree(k + 1))

\* Prefix::is_neighbour: the prefixes differ in exactly one of the bits both have.
is_neighbour(p, q) ==
    LET common == IF Len(p) < Len(q) THEN Len(p) ELSE Len(q)
    IN  Cardinality({i \in 1 .. common : p[i] # q[i]}) = 1

is_covered_by(p, prefixes) ==
    \A n \in Names : Matches(p, n) => \E q \in prefixes : Matches(q, n)

\* SectionMap::all: our info and the infos of the other known sections.
all_sections(c) == {c.our_info} \cup c.neighbours

known_prefixes(c) == {i.prefix : i \in all_sections(c)}

\* The section a is before the section b in the order of distance to name: the
\* longer match first, then the lower prefix.
CloserSection(a, b, name) ==
    LET ca == PrefixCommonPrefix(a.prefix, name)
        cb == PrefixCommonPrefix(b.prefix, name)
    IN  \/ ca > cb
        \/ ca = cb /\ lower_bound(a.prefix) < lower_bound(b.prefix)
        \/ ca = cb /\ lower_bound(a.prefix) = lower_bound(b.prefix)
                   /\ Len(a.prefix) < Len(b.prefix)

RECURSIVE SortedSections(_, _)
SortedSections(S, name) ==
    IF S = {} THEN <<>>
    ELSE LET first == CHOOSE a \in S : \A b \in S \ {a} : CloserSection(a, b, name)
         IN  <<first>> \o SortedSections(S \ {first}, name)

sorted_by_distance_to(c, name) == SortedSections(all_sections(c), name)

closest(c, name) == sorted_by_distance_to(c, name)[1]

\* The names of S, the closest to target first.
RECURSIVE SortedByDistance(_, _)
SortedByDistance(S, target) ==
    IF S = {} THEN <<>>
    ELSE LET first == CHOOSE a \in S :
                          \A b \in S : XorDistance(a, target) <= XorDistance(b, target)
         IN  <<first>> \o SortedByDistance(S \ {first}, target)

\* The names of S in the order of the member map.
RECURSIVE SortedNames(_)
SortedNames(S) ==
    IF S = {} THEN <<>>
    ELSE LET first == CHOOSE a \in S : \A b \in S : a <= b
         IN  <<first>> \o SortedNames(S \ {first})

Routed(nodes, dg_size) == [err |-> "None", nodes |-> nodes, dg_size |-> dg_size]

CannotRoute == [err |-> "CannotRoute", nodes |-> <<>>, dg_size |-> 0]

DstNode(n) == [kind |-> "Node", name |-> n, prefix |-> <<>>]
DstSection(n) == [kind |-> "Section", name |-> n, prefix |-> <<>>]
DstPrefix(p) == [kind |-> "Prefix", name |-> 0, prefix |-> p]
DstDirect == [kind |-> "Direct", name |-> 0, prefix |-> <<>>]

\* The loop of candidates over the sections from index idx (1 is the closest):
\* it ends at our section and at the closest section.
RECURSIVE CandidatesFrom(_, _, _, _, _)
CandidatesFrom(c, secs, idx, nodes, last_dg_size) ==
    IF idx > Len(secs) THEN [nodes |-> nodes, dg_size |-> last_dg_size]
    ELSE LET extended == nodes \cup secs[idx].members
             dg_size == delivery_group_size(Cardinality(secs[idx].members))
         IN  IF secs[idx].prefix = our_prefix(c)
             THEN [nodes |-> extended \ {our_id},
                   dg_size |-> Cardinality(extended \ {our_id})]
             ELSE IF idx = 1 /\ Cardinality(extended) >= dg_size
             THEN [nodes |-> extended, dg_size |-> dg_size]
             ELSE CandidatesFrom(c, secs, idx + 1, extended, dg_size)

candidates(c, target_name) ==
    LET found(secs) == CandidatesFrom(c, secs, 1, {}, 0)
        result(f) ==
            IF f.dg_size > 0 /\ Cardinality(f.nodes) >= f.dg_size
            THEN Routed(SortedByDistance(f.nodes, target_name), f.dg_size)
            ELSE CannotRoute
    IN  result(found(sorted_by_distance_to(c, target_name)))

\* Chain::get_p2p_node: a member of our section or an elder of a known section.
get_p2p_node(c, name) ==
    \/ IsMember(c, name)
    \/ \E i \in all_sections(c) : name \in i.members

is_self_elder(c) == is_peer_our_elder(c, our_id)

\* The elders of every known section whose prefix is compatible with p, but us.
CompatibleElders(c, p) == UNION {i.members : i \in compatible(c, p)} \ {our_id}

prefix_targets_without_cover(c, p) ==
    IF IsCompatible(p, our_prefix(c)) \/ is_neighbour(p, our_prefix(c))
    THEN Routed(SortedNames(CompatibleElders(c, p)), Cardinality(CompatibleElders(c, p)))
    ELSE candidates(c, lower_bound(p))

\* The branch of targets for DstLocation::Prefix.
prefix_targets(c, p) ==
    IF IsCompatible(p, our_prefix(c)) \/ is_neighbour(p, our_prefix(c))
    THEN IF IsCompatible(p, our_prefix(c)) /\ ~is_covered_by(p, known_prefixes(c))
         THEN CannotRoute
         ELSE Routed(SortedNames(CompatibleElders(c, p)),
                     Cardinality(CompatibleElders(c, p)))
    ELSE candidates(c, lower_bound(p))

targets(c, dst) ==
    IF ~is_self_elder(c)
    THEN Routed(SortedNames(c.our_info.members), Cardinality(c.our_info.members))
    ELSE IF dst.kind = "Node"
    THEN IF dst.name = our_id THEN Routed(<<>>, 0)
         ELSE IF get_p2p_node(c, dst.name) THEN Routed(<<dst.name>>, 1)
         ELSE candidates(c, dst.name)
    ELSE IF dst.kind = "Section"
    THEN LET section(s) ==
                 IF s.prefix = our_prefix(c) \/ is_neighbour(s.prefix, our_prefix(c))
                 THEN Routed(SortedNames(s.members \ {our_id}),
                             Cardinality(s.members \ {our_id}))
                 ELSE candidates(c, dst.name)
         IN  section(closest(c, dst.name))
    ELSE IF dst.kind = "Prefix"
    THEN prefix_targets(c, dst.prefix)
    ELSE CannotRoute

\* The section maps of the node: our section is the whole network, the half of
\* prefix 0 or the quarter of prefix 00, and the other known sections are sections
\* of other prefixes no two of which are compatible.
Prefixes == {<<>>, <<0>>, <<1>>, <<0, 0>>, <<0, 1>>, <<1, 0>>, <<1, 1>>}

\* The prefixes that are not compatible with every prefix of ours.
OtherPrefixes == {<<1>>, <<0, 1>>, <<1, 0>>, <<1, 1>>}

EldersOf(p) == (SUBSET {n \in Names : Matches(p, n)}) \ {{}}

InfosOf(prefixes, version) ==
    UNION {{[prefix |-> p, members |-> e, version |-> version] : e \in EldersOf(p)} :
              p \in prefixes}

SectionMaps ==
    {m \in [ours : InfosOf({<<>>, <<0>>, <<0, 0>>}, 0),
            others : SUBSET InfosOf(OtherPrefixes, 1)] :
        \A i \in m.others :
            /\ ~IsCompatible(i.prefix, m.ours.prefix)
            /\ \A j \in m.others \ {i} : ~IsCompatible(i.prefix, j.prefix)}

Destinations ==
    {DstNode(n) : n \in Names} \cup {DstSection(n) : n \in Names}
    \cup {DstPrefix(p) : p \in Prefixes} \cup {DstDirect}

RoutingInit ==
    /\ \E m \in SectionMaps :
        chain = [NewChain(m.ours) EXCEPT
                    !.neighbours = m.others,
                    !.our_members[our_id] = [age |-> 5, state |-> "Joined"]]
    /\ proposed = {}
    /\ last = NoOp
    /\ deferred = <<>>
    /\ churned = 0

Targets ==
    /\ \E dst \in Destinations :
        last' = [op |-> "targets", dst |-> dst, ret |-> targets(chain, dst)]
    /\ UNCHANGED <<chain, proposed, deferred, churned>>
    /\ UNCHANGED <<capVars, idm, nodeVars>>

RoutingNext == Targets

RoutingSpecInit == RoutingInit /\ CapIdle /\ IdmIdle /\ NodeIdle

RoutingSpec == RoutingSpecInit /\ [][RoutingNext]_vars

Targeted(kind) == last.op = "targets" /\ last.dst.kind = kind

\* C31: for an elder, targets(Section(name)) returns all elders of our section but
\* ourselves when our prefix is the closest to name, and otherwise elders of the
\* closest section, a neighbour included, with a delivery group of a third of its
\* elders, rounded up.
C31_SectionTargets ==
    (Targeted("Section") /\ is_self_elder(chain)) =>
        LET section == closest(chain, last.dst.name)
        IN  IF section.prefix = our_prefix(chain)
            THEN last.ret = Routed(SortedNames(section.members \ {our_id}),
                                   Cardinality(section.members \ {our_id}))
            ELSE /\ last.ret.err = "None"
                 /\ {last.ret.nodes[i] : i \in 1 .. Len(last.ret.nodes)}
                        \subseteq section.members
                 /\ last.ret.dg_size = delivery_group_size(Cardinality(section.members))

\* The delivery group of the section that is the closest to name: its elders, the
\* closest to name first, and a third of their number, rounded up; when the
\* section is ours, all its elders but us.
ClosestDeliveryGroup(c, name) ==
    LET group(s) ==
            IF s.prefix = our_prefix(c)
            THEN Routed(SortedByDistance(s.members \ {our_id}, name),
                        Cardinality(s.members \ {our_id}))
            ELSE Routed(SortedByDistance(s.members, name),
                        delivery_group_size(Cardinality(s.members)))
    IN  group(closest(c, name))

\* C32: for an elder, targets(Prefix(p)) with p compatible with our prefix fails with
\* CannotRoute when the known prefixes do not cover p and otherwise returns every
\* elder, but us, of every known section whose prefix is compatible with p; for p
\* neither compatible with our prefix nor a neighbour of it, it returns the
\* delivery group of the closest known section or CannotRoute.
C32_PrefixTargets ==
    (Targeted("Prefix") /\ is_self_elder(chain)) =>
        IF IsCompatible(last.dst.prefix, our_prefix(chain))
        THEN IF ~is_covered_by(last.dst.prefix, known_prefixes(chain))
             THEN last.ret = CannotRoute
             ELSE /\ last.ret.err = "None"
                  /\ {last.ret.nodes[i] : i \in 1 .. Len(last.ret.nodes)}
                         = CompatibleElders(chain, last.dst.prefix)
                  /\ last.ret.dg_size = Len(last.ret.nodes)
                  /\ Len(last.ret.nodes) = Cardinality(CompatibleElders(chain, last.dst.prefix))
        ELSE is_neighbour(last.dst.prefix, our_prefix(chain))
             \/ last.ret = CannotRoute
             \/ last.ret = ClosestDeliveryGroup(chain, lower_bound(last.dst.prefix))

\* An uncovered prefix that is compatible with ours was refused.
C32_Witness ==
    /\ Targeted("Prefix") /\ is_self_elder(chain)
    /\ IsCompatible(last.dst.prefix, our_prefix(chain))
    /\ ~is_covered_by(last.dst.prefix, known_prefixes(chain))
    /\ chain.neighbours # {}
    /\ last.ret = CannotRoute

\* A covered prefix was routed to the elders of two sections.
C32_WitnessCovered ==
    /\ Targeted("Prefix") /\ is_self_elder(chain)
    /\ our_prefix(chain) = <<0>>
    /\ last.dst.prefix = <<>>
    /\ last.ret = Routed(<<1, 2, 3>>, 3)

\* A prefix that is far from ours was routed to one of the two elders of the closest
\* section.
C32_WitnessFar ==
    /\ Targeted("Prefix") /\ is_self_elder(chain)
    /\ our_prefix(chain) = <<0, 0>>
    /\ last.dst.prefix = <<1, 1>>
    /\ last.ret = Routed(<<3, 2>>, 1)

\* The only known section is ours and we are its only elder.
C32_WitnessCannotRoute ==
    /\ Targeted("Prefix") /\ is_self_elder(chain)
    /\ our_prefix(chain) = <<0, 0>>
    /\ last.dst.prefix = <<1, 1>>
    /\ last.ret = CannotRoute

(***************************************************************************)
(* The routing Core (update_section.rs): the section the node knows, its   *)
(* elders and its live members, and the events of the last update_section. *)
(***************************************************************************)

\* Section::live_adults: the live members that are not elders.
live_adults(c) == c.members \ c.elders

is_not_elder(c) == our_id \notin c.elders

NoUpdate == [joined |-> {}, left |-> {}]

\* Section::merge: the elders of the section authority replace ours and the given
\* members join or leave.
merge(c, section_auth, members) ==
    [c EXCEPT !.elders = section_auth,
              !.members = (@ \cup members.joined) \ members.left]

AdultsChanged(added, removed, remaining) ==
    [kind |-> "AdultsChanged", added |-> added, removed |-> removed,
     remaining |-> remaining]

EldersChanged(added, removed, remaining) ==
    [kind |-> "EldersChanged", added |-> added, removed |-> removed,
     remaining |-> remaining]

send_event(c, e) == [c EXCEPT !.events = Append(@, e)]

\* Core::update_state: the elders are compared with those of the snapshot.
update_state(c, snapshot) ==
    IF c.elders # snapshot
    THEN send_event(c, EldersChanged(c.elders \ snapshot, snapshot \ c.elders,
                                     c.elders \cap snapshot))
    ELSE c

CoreCalled(c, op) ==
    [c EXCEPT !.op = op, !.old_adults = live_adults(c), !.events = <<>>, !.ret = "Ok"]

update_section_telling_elders(c, section_auth, merge_ok, snapshot, members) ==
    IF ~merge_ok THEN [c EXCEPT !.ret = "Err"]
    ELSE LET announced(m) ==
                 IF live_adults(m) # c.old_adults
                 THEN send_event(m, AdultsChanged(live_adults(m) \ c.old_adults,
                                                  c.old_adults \ live_adults(m),
                                                  c.old_adults \cap live_adults(m)))
                 ELSE m
         IN  update_state(announced(merge(c, section_auth, members)), snapshot)

\* merge_ok: whether Section::merge accepted the section authority and its chain.
update_section(c, section_auth, merge_ok, snapshot, members) ==
    IF ~merge_ok THEN [c EXCEPT !.ret = "Err"]
    ELSE LET announced(m, added, removed) ==
                 IF is_not_elder(m) /\ (added # {} \/ removed # {})
                 THEN send_event(m, AdultsChanged(added, removed,
                                                  c.old_adults \cap live_adults(m)))
                 ELSE m
             merged(m) ==
                 announced(m, live_adults(m) \ c.old_adults,
                           c.old_adults \ live_adults(m))
         IN  update_state(merged(merge(c, section_auth, members)), snapshot)

\* The elders of a section authority, and the members that an update names.
ElderSets == {e \in SUBSET Names : Cardinality(e) \in 1 .. elder_size}

MemberUpdates ==
    {u \in [joined : SUBSET Names, left : SUBSET Names] :
        /\ Cardinality(u.joined) <= 1
        /\ Cardinality(u.left) <= 1
        /\ u.joined \cap u.left = {}}

CoreInit ==
    /\ \E e \in ElderSets, m \in SUBSET Names :
        /\ e \cup {our_id} \subseteq m
        /\ core = [elders |-> e, members |-> m, op |-> "new", old_adults |-> {},
                   events |-> <<>>, ret |-> "Ok"]
    /\ node = [elders |-> {}, membership |-> None, op |-> "new", pre |-> None,
               response |-> "None", cmds |-> <<>>, ret |-> "Ok"]

UpdateSection ==
    /\ \E e \in ElderSets \cup {core.elders}, ok \in BOOLEAN, u \in MemberUpdates :
        core' = update_section(CoreCalled(core, "update_section"), e, ok, core.elders, u)
    /\ UNCHANGED node
    /\ UNCHANGED <<chainVars, capVars, idm>>

CoreNext == UpdateSection

CoreSpecInit == CoreInit /\ ChainIdle /\ CapIdle /\ IdmIdle

CoreSpec == CoreSpecInit /\ [][CoreNext]_vars

AdultsChangedEvents ==
    {i \in 1 .. Len(core.events) : core.events[i].kind = "AdultsChanged"}

\* C33: update_section emits an AdultsChanged event exactly when the node is not an
\* elder and the live adults after the merge are not those before it; the event has
\* added = new \ old, removed = old \ new and remaining = old \cap new, so the three
\* sets are pairwise disjoint and added or removed is not empty.
C33_AdultsChanged ==
    core.op = "update_section" =>
        /\ AdultsChangedEvents # {}
            <=> (is_not_elder(core) /\ live_adults(core) # core.old_adults)
        /\ Cardinality(AdultsChangedEvents) <= 1
        /\ \A i \in AdultsChangedEvents :
            /\ core.events[i].added = live_adults(core) \ core.old_adults
            /\ core.events[i].removed = core.old_adults \ live_adults(core)
            /\ core.events[i].remaining = core.old_adults \cap live_adults(core)
            /\ core.events[i].added \cap core.events[i].removed = {}
            /\ core.events[i].added \cap core.events[i].remaining = {}
            /\ core.events[i].removed \cap core.events[i].remaining = {}
            /\ core.events[i].added # {} \/ core.events[i].removed # {}

\* An adult saw one adult join and one leave while a third stayed.
C33_Witness ==
    /\ core.op = "update_section"
    /\ is_not_elder(core)
    /\ \E i \in AdultsChangedEvents :
        /\ core.events[i].added # {}
        /\ core.events[i].removed # {}
        /\ core.events[i].remaining # {}

\* An elder saw the adults change and no AdultsChanged event was sent.
C33_WitnessElder ==
    /\ core.op = "update_section"
    /\ ~is_not_elder(core)
    /\ live_adults(core) # core.old_adults
    /\ core.ret = "Ok"
    /\ AdultsChangedEvents = {}

(***************************************************************************)
(* The sn Node (membership.rs): the elders of its section, its membership  *)
(* state, which elders alone hold, and the commands of the last            *)
(* handle_membership_vote.                                                 *)
(***************************************************************************)
is_elder(n) == our_id \in n.elders

\* The answers of Membership::handle_signed_vote (sn_membership).
VoteResponses == {"Broadcast", "WaitingForMoreVotes", "Err"}

\* Membership::handle_signed_vote: a vote that is not refused is kept.
handle_signed_vote(n, signed_vote, response) ==
    IF response = "Err" THEN n
    ELSE [n EXCEPT !.membership = Some(@[1] \cup {signed_vote})]

\* Node::send_msg_to_our_elders: the command that sends msg to the elders of our
\* section.
send_msg_to_our_elders(n, msg) ==
    [kind |-> "SendMsg", recipients |-> n.elders, msg |-> msg]

NodeCalled(n, op) ==
    [n EXCEPT !.op = op, !.pre = n.membership, !.response = "None", !.cmds = <<>>,
              !.ret = "Ok"]

handle_membership_vote_returning_errors(n, signed_vote, response, send_ok) ==
    IF n.membership # None
    THEN IF ~is_elder(n) THEN [n EXCEPT !.ret = "Panic"]
         ELSE LET voted(m) ==
                      IF response = "Broadcast"
                      THEN IF send_ok
                           THEN [m EXCEPT !.cmds = <<send_msg_to_our_elders(m, signed_vote)>>]
                           ELSE [m EXCEPT !.ret = "Err"]
                      ELSE IF response = "Err" THEN [m EXCEPT !.ret = "Err"]
                      ELSE m
              IN  voted([handle_signed_vote(n, signed_vote, response)
                            EXCEPT !.response = response])
    ELSE IF is_elder(n) THEN [n EXCEPT !.ret = "Panic"]
    ELSE n

\* response: the answer of the vote handler to this vote; send_ok: whether
\* send_msg_to_our_elders built its command.
handle_membership_vote(n, signed_vote, response, send_ok) ==
    IF n.membership # None
    THEN IF ~is_elder(n) THEN [n EXCEPT !.ret = "Panic"]
         ELSE LET voted(m) ==
                      IF response = "Broadcast"
                      THEN IF send_ok
                           THEN [m EXCEPT !.cmds = <<send_msg_to_our_elders(m, signed_vote)>>]
                           ELSE [m EXCEPT !.ret = "Err"]
                      ELSE m
              IN  voted([handle_signed_vote(n, signed_vote, response)
                            EXCEPT !.response = response])
    ELSE IF is_elder(n) THEN [n EXCEPT !.ret = "Panic"]
    ELSE n

\* The votes: an elder of the section votes for a node to join or to leave.
Proposals == {"Joined", "Left"}

SignedVotes == [voter : Names, proposal : Proposals]

\* The membership state is held by the elders and by nobody else.
NodeInit ==
    /\ \E e \in ElderSets :
        node = [elders |-> e,
                membership |-> IF our_id \in e THEN Some({}) ELSE None,
                op |-> "new", pre |-> None, response |-> "None", cmds |-> <<>>,
                ret |-> "Ok"]
    /\ core = [elders |-> {}, members |-> {}, op |-> "new", old_adults |-> {},
               events |-> <<>>, ret |-> "Ok"]

HandleMembershipVote ==
    /\ \E v \in SignedVotes, response \in VoteResponses, send_ok \in BOOLEAN :
        node' = handle_membership_vote(NodeCalled(node, "handle_membership_vote"),
                                       v, response, send_ok)
    /\ UNCHANGED core
    /\ UNCHANGED <<chainVars, capVars, idm>>

NodeNext == HandleMembershipVote

NodeSpecInit == NodeInit /\ ChainIdle /\ CapIdle /\ IdmIdle

NodeSpec == NodeSpecInit /\ [][NodeNext]_vars

\* C34: a membership vote handled by a node without membership state, which is not
\* an elder, is dropped: the call succeeds with no commands and the node still has
\* no membership state; on an elder the call yields a command, one broadcast to our
\* elders, only when the vote handler answered Broadcast, and a vote that the
\* handler refused yields success with no commands.
C34_MembershipVote ==
    node.op = "handle_membership_vote" =>
        /\ node.pre = None =>
            /\ ~is_elder(node)
            /\ node.ret = "Ok"
            /\ node.cmds = <<>>
            /\ node.membership = None
        /\ node.pre # None =>
            /\ Len(node.cmds) <= 1
            /\ node.cmds # <<>> =>
                /\ node.response = "Broadcast"
                /\ node.cmds[1].kind = "SendMsg"
                /\ node.cmds[1].recipients = node.elders
            /\ node.response = "Err" => (node.ret = "Ok" /\ node.cmds = <<>>)

\* A node that is not an elder dropped a vote.
C34_Witness ==
    /\ node.op = "handle_membership_vote"
    /\ node.pre = None
    /\ node.ret = "Ok"
    /\ node.cmds = <<>>

\* An elder that has three votes swallowed the error of a fourth.
C34_WitnessError ==
    /\ node.op = "handle_membership_vote"
    /\ node.pre # None
    /\ Cardinality(node.membership[1]) = 3
    /\ node.response = "Err"
    /\ node.ret = "Ok"

\* An elder broadcast its answer to our elders.
C34_WitnessBroadcast ==
    /\ node.op = "handle_membership_vote"
    /\ node.response = "Broadcast"
    /\ Len(node.cmds) = 1

(***************************************************************************)
(* The chain with parsec resets: the node calls prepare_parsec_reset or    *)
(* finalise_prefix_change and handles the genesis event of the new parsec  *)
(* instance later.                                                         *)
(***************************************************************************)
finalise_prefix_change(c) == prepare_parsec_reset(prune_neighbours(c))

PrepareParsecReset ==
    /\ Running
    /\ chain' = prepare_parsec_reset(chain)
    /\ last' = [op |-> "prepare_parsec_reset", ret |-> RetNone]
    /\ UNCHANGED <<proposed, deferred, churned>>
    /\ UNCHANGED <<capVars, idm, nodeVars>>

FinalisePrefixChange ==
    /\ Running
    /\ chain' = finalise_prefix_change(chain)
    /\ last' = [op |-> "finalise_prefix_change", ret |-> RetNone]
    /\ UNCHANGED <<proposed, deferred, churned>>
    /\ UNCHANGED <<capVars, idm, nodeVars>>

ResetNext ==
    \/ HandleOpaqueEvent
    \/ HandleGenesisEvent
    \/ HandleDkgResultEvent
    \/ AddMember
    \/ RemoveMember
    \/ PollAccumulated
    \/ PrepareParsecReset
    \/ FinalisePrefixChange

ResetSpec == Init /\ [][ResetNext]_vars

\* C35: from prepare_parsec_reset or finalise_prefix_change until the next genesis
\* event is handled, poll_accumulated returns no backlog entry, no elder proposal, no
\* RelocateDetails and no Online, Offline or Relocate event, and a churn event that
\* accumulates goes to the front of the backlog.
C35_NoChurnBeforeGenesis ==
    (last.op = "poll_accumulated" /\ ~last.pre.handled_genesis_event) =>
        /\ last.step # "backlog"
        /\ last.ret.kind \notin {"PromoteDemoteElders", "RelocateDetails"}
        /\ last.ret.kind = "AccumulatedEvent" => ~IsChurnEvent(last.ret.event)
        /\ (/\ last.polled # None
            /\ last.ret.kind \notin {"Panic", "Err"}
            /\ IsChurnEvent(last.polled[1]))
            => /\ last.backlogged
               /\ chain.churn_event_backlog
                      = <<last.polled[1]>> \o last.pre.churn_event_backlog

\* After a reset that followed the joining of a third member, a churn event
\* accumulated and went to the backlog.
C35_Witness ==
    /\ last.op = "poll_accumulated"
    /\ ~last.pre.handled_genesis_event
    /\ Cardinality(Members) >= 3
    /\ last.backlogged
    /\ IsChurnEvent(last.polled[1])
    /\ last.ret = RetNone

\* The deferred event was returned after the genesis event of the new instance.
C35_WitnessReturned ==
    /\ last.op = "poll_accumulated"
    /\ last.pre.handled_genesis_event
    /\ Cardinality(Members) >= 3
    /\ last.step = "backlog"
    /\ last.pre.our_info.version > 0

\* The last poll took the info of a child of our section out of the accumulator
\* while no child was cached.
FirstSplitChildPolled ==
    /\ last.op = "poll_accumulated"
    /\ last.ret.kind # "Panic"
    /\ last.polled # None
    /\ last.polled[1].type = "SectionInfo"
    /\ IsExtensionOf(last.polled[1].info.prefix, our_prefix(last.pre))
    /\ last.pre.split_cache = None

\* C36: add_elders_info for the first arriving child of a split returns false: the
\* poll surfaces no event for it, our_info, our history, the neighbours, our section
\* keys, new_section_bls_keys and churn_in_progress are as before, and split_cache
\* holds the child.
C36_FirstSplitChildIsCached ==
    FirstSplitChildPolled =>
        /\ last.ret = RetNone
        /\ chain.our_info = last.pre.our_info
        /\ chain.our_history = last.pre.our_history
        /\ chain.neighbours = last.pre.neighbours
        /\ chain.our_section_bls_keys = last.pre.our_section_bls_keys
        /\ chain.new_section_bls_keys = last.pre.new_section_bls_keys
        /\ chain.churn_in_progress = last.pre.churn_in_progress
        /\ chain.our_members = last.pre.our_members
        /\ chain.churn_event_backlog = last.pre.churn_event_backlog
        /\ chain.split_cache # None
        /\ chain.split_cache[1].elders_info = last.polled[1].info
        /\ chain.split_cache[1].key_info = last.polled[1].key_info

\* The child that was cached first is the one of our own half.
C36_Witness ==
    /\ FirstSplitChildPolled
    /\ Matches(last.polled[1].info.prefix, our_id)
    /\ chain.churn_in_progress
    /\ chain.split_cache # None

\* The child that was cached first is our sibling.
C36_WitnessSibling ==
    /\ FirstSplitChildPolled
    /\ ~Matches(last.polled[1].info.prefix, our_id)
    /\ chain.split_cache # None

CommitErrors == {"InvalidNewSectionInfo", "InvalidElderDkgResult"}

\* C37: churn_in_progress, once set, becomes false only in a poll that commits our
\* own EldersInfo and returns its SectionInfo; a poll whose commit fails with
\* InvalidNewSectionInfo or InvalidElderDkgResult leaves it set, and with it
\* can_poll_churn false.
C37_ChurnEndsOnlyByCommit ==
    [][(((chain.churn_in_progress /\ ~chain'.churn_in_progress) =>
            ((last'.op = "poll_accumulated")
             /\ (last'.ret.kind = "AccumulatedEvent")
             /\ (last'.ret.event.type = "SectionInfo")
             /\ (chain'.our_info # chain.our_info)
             /\ (Len(chain'.our_history) = Len(chain.our_history) + 1)))
        /\ ((chain.churn_in_progress /\ last'.op = "poll_accumulated"
                /\ last'.ret.kind = "Err") =>
            ((last'.ret.err \in CommitErrors)
             /\ chain'.churn_in_progress
             /\ ~can_poll_churn(chain')
             /\ (chain'.our_info = chain.our_info))))]_vars

\* A commit failed for want of a DKG result while events were waiting in the
\* backlog, and the churn is still in progress.
C37_Witness ==
    /\ last.op = "poll_accumulated"
    /\ last.ret = RetErr("InvalidElderDkgResult")
    /\ last.pre.churn_in_progress
    /\ chain.churn_in_progress
    /\ chain.churn_event_backlog # <<>>

\* A commit failed because the shares did not combine.
C37_WitnessSignature ==
    /\ last.op = "poll_accumulated"
    /\ last.ret = RetErr("InvalidNewSectionInfo")
    /\ last.pre.churn_in_progress
    /\ chain.churn_in_progress

\* C38: in every reachable state each node name appears at most once among the
\* holders of the chunk account: no holder is recorded in two states at once.
C38_OneEntryPerHolder ==
    idm.account # None =>
        \A g, h \in idm.account[1] : g.name = h.name => g = h

(***************************************************************************)
(* The chain after a membership change that aged several members at once:  *)
(* the members whose age churned up are Relocating and their details are   *)
(* in the relocation queue, the most recent at the front.                  *)
(***************************************************************************)
\* The sections of the elders 0 and 1 with one or two younger members.
RelocationMembers == {{0, 1, 2}, {0, 1, 2, 3}}

\* The orders in which the members of R can be queued.
QueuesOf(R) ==
    {q \in UNION {[1 .. k -> R] : k \in 1 .. MaxRelocations} :
        /\ Len(q) = Cardinality(R)
        /\ \A i, j \in 1 .. Len(q) : i # j => q[i] # q[j]}

RelocationInit ==
    /\ \E M \in RelocationMembers, g \in BOOLEAN :
        \E R \in (SUBSET (M \ {our_id})) \ {{}} :
            \E q \in QueuesOf(R) :
                chain = [NewChain(GenesisInfo) EXCEPT
                            !.handled_genesis_event = g,
                            !.members_changed = TRUE,
                            !.our_members =
                                [n \in Names |->
                                    IF n \notin M THEN NoMember
                                    ELSE [age |-> IF n \in GenesisInfo.members
                                                  THEN 5 ELSE 4,
                                          state |-> IF n \in R THEN "Relocating"
                                                    ELSE "Joined"]],
                            !.relocate_queue = [i \in 1 .. Len(q) |-> [pub_id |-> q[i]]]]
    /\ proposed = {}
    /\ last = NoOp
    /\ deferred = <<>>
    /\ churned = MaxChurn - 1

RelocationSpecInit == RelocationInit /\ CapIdle /\ IdmIdle /\ NodeIdle

RelocationSpec == RelocationSpecInit /\ [][ChainNext]_vars

\* The rearmost member entry of the relocation queue of c is that of an elder.
ElderAtBack(c) ==
    /\ BackMember(c) # None
    /\ is_peer_our_elder(c, BackMember(c)[1])

\* The members with an entry in the queue of c that are not elders.
QueuedAdults(c) == {x \in Queued(c) : IsMember(c, x) /\ ~is_peer_our_elder(c, x)}

\* C39: poll_relocation examines the rearmost member entry of the queue only: the
\* details it returns are those of that entry, and when that entry is for an elder
\* the poll returns no relocation, whatever other entries are queued, and the entry
\* of the elder is again the rearmost of the queue.
C39_ElderEntryBlocksQueue ==
    PolledOk =>
        /\ last.ret.kind = "RelocateDetails" =>
            /\ BackMember(last.pre) = Some(last.ret.details.pub_id)
            /\ ~ElderAtBack(last.pre)
        /\ ElderAtBack(last.pre) =>
            /\ last.ret.kind # "RelocateDetails"
            /\ QueuedAdults(last.pre) \subseteq Queued(chain)
            /\ (/\ can_poll_churn(last.pre)
                /\ last.pre.churn_event_backlog = <<>>
                /\ last.step = "accumulator")
                => /\ chain.relocate_queue
                          = DropNonMembers(last.pre, last.pre.relocate_queue)
                   /\ chain.relocate_queue[Len(chain.relocate_queue)].pub_id
                          = BackMember(last.pre)[1]

\* The entry of an elder was examined and put back while the entry of a member that
\* is not an elder waited before it.
C39_Witness ==
    /\ PolledOk
    /\ ElderAtBack(last.pre)
    /\ QueuedAdults(last.pre) # {}
    /\ can_poll_churn(last.pre)
    /\ last.pre.churn_event_backlog = <<>>
    /\ last.step = "accumulator"
    /\ ElderAtBack(chain)

\* The waiting relocation was returned once the elder in front of it had been
\* demoted or had left.
C39_WitnessReleased ==
    /\ PolledOk
    /\ last.ret.kind = "RelocateDetails"
    /\ Len(last.pre.relocate_queue) = 2
    /\ last.pre.relocate_queue[2].pub_id # last.ret.details.pub_id

\* The last poll called do_add_elders_info: it took a SectionInfo out of the
\* accumulator that was not the first child of a split.
CommitAttempted == SectionInfoPolled /\ ~FirstSplitChildPolled

StoredKeys(c) == {n \in Names : c.new_section_bls_keys[n] # None}

\* The proofs of a vote of all our elders with good shares.
FullProofs(c) == {[voter |-> v, share_ok |-> TRUE] : v \in c.our_info.members}

\* C40: a commit attempt of our EldersInfo whose signatures combine leaves
\* new_section_bls_keys empty, whether it succeeds or fails with
\* InvalidElderDkgResult, and after the failure the same commit, retried with the
\* shares of all our elders, fails again.
C40_CommitEmptiesNewKeys ==
    (CommitAttempted /\ last.ret # RetErr("InvalidNewSectionInfo")) =>
        /\ last.ret.kind = "Err" => last.ret = RetErr("InvalidElderDkgResult")
        /\ StoredKeys(chain) = {}
        /\ last.ret = RetErr("InvalidElderDkgResult") =>
            /\ chain.our_info = last.pre.our_info
            /\ do_add_elders_info(chain, AttemptedInfo, last.polled[1].key_info,
                                  FullProofs(chain)).err = "InvalidElderDkgResult"

\* A split committed while the DKG results of both children were stored, and none
\* is left.
C40_Witness ==
    /\ OurInfoCommitted
    /\ Cardinality(StoredKeys(last.pre)) = 2
    /\ Len(our_prefix(chain)) = Len(our_prefix(last.pre)) + 1
    /\ StoredKeys(chain) = {}

\* A commit failed with InvalidElderDkgResult and discarded a DKG result that was
\* stored under another name.
C40_WitnessFailure ==
    /\ CommitAttempted
    /\ last.ret = RetErr("InvalidElderDkgResult")
    /\ StoredKeys(last.pre) # {}
    /\ StoredKeys(chain) = {}

====
